---- MODULE Spec2Model ----
(***************************************************************************)
(* QwtPlotLayout (src/src/qwt_plot_layout.cpp): the layout of the title,   *)
(* footer, legend, the four axis scales and the canvas of a plot.          *)
(*                                                                         *)
(* Coordinates (qreal) are integers counting 1/Unit of a pixel, so that    *)
(* fractional plot rectangles and the rounding of QRectF::toRect and       *)
(* qwtFloor are part of the model.  Quantities the code keeps in an int    *)
(* (dimensions, border distances, hints) count whole pixels; P(n) turns    *)
(* them into coordinates where the code adds an int to a qreal.            *)
(***************************************************************************)
EXTENDS Integers, Sequences, FiniteSets, TLC

\* sub-pixel steps per pixel of the modelled qreal coordinates
Unit == 2

P(n) == n * Unit

Min(a, b) == IF a < b THEN a ELSE b
Max(a, b) == IF a > b THEN a ELSE b

\* a, b >= 0, b > 0
CeilDiv(a, b) == (a + b - 1) \div b

\* qwtFloor / qwtCeil of a coordinate: whole pixels
qwtFloor(u) == u \div Unit
qwtCeil(u) == -((-u) \div Unit)

\* qRound of a coordinate: nearest pixel, halves upwards
qRound(u) == (2 * u + Unit) \div (2 * Unit)

(***************************************************************************)
(* QwtPlot::Axis and QwtPlot::LegendPosition                               *)
(***************************************************************************)
yLeft == 0
yRight == 1
xBottom == 2
xTop == 3
axisCnt == 4

Axes == 0 .. (axisCnt - 1)

\* an array indexed by the axes
PerAxis(l, r, b, t) == (yLeft :> l @@ yRight :> r @@ xBottom :> b @@ xTop :> t)
AllAxes(v) == PerAxis(v, v, v, v)

LegendPositions == {"LeftLegend", "RightLegend", "BottomLegend", "TopLegend"}

\* QwtPlotLayout::Options is a set of the flag names "AlignScales",
\* "IgnoreScrollbars", "IgnoreFrames", "IgnoreLegend", "IgnoreTitle" and
\* "IgnoreFooter"

(***************************************************************************)
(* unsigned int (32 bit), kept as two 16 bit halves                        *)
(***************************************************************************)
Pow16 == 2 ^ 16

\* int -> unsigned int
U32(i) == [hi |-> (i \div Pow16) % Pow16, lo |-> i % Pow16]

\* unsigned int -> int
S32(u) == (IF u.hi >= Pow16 \div 2 THEN u.hi - Pow16 ELSE u.hi) * Pow16 + u.lo

\* unsigned int + unsigned int
AddU32(a, b) ==
    LET lo == a.lo + b.lo
        hi == a.hi + b.hi + (lo \div Pow16)
    IN  [hi |-> hi % Pow16, lo |-> lo % Pow16]

\* int op unsigned: the int is converted, the sum is unsigned, and storing it
\* in an int converts back
IntPlusUnsigned(i, u) == S32(AddU32(U32(i), u))

(***************************************************************************)
(* QRectF                                                                  *)
(***************************************************************************)
Rect(x, y, w, h) == [x |-> x, y |-> y, w |-> w, h |-> h]

\* QRectF( QRect() ): the default QRect has width and height 0
NullRect == Rect(0, 0, 0, 0)

left(r) == r.x
right(r) == r.x + r.w
top(r) == r.y
bottom(r) == r.y + r.h

setLeft(r, v) == [r EXCEPT !.x = v, !.w = r.w - (v - r.x)]
setRight(r, v) == [r EXCEPT !.w = v - r.x]
setTop(r, v) == [r EXCEPT !.y = v, !.h = r.h - (v - r.y)]
setBottom(r, v) == [r EXCEPT !.h = v - r.y]
setX(r, v) == setLeft(r, v)
setY(r, v) == setTop(r, v)
setWidth(r, w) == [r EXCEPT !.w = w]
setHeight(r, h) == [r EXCEPT !.h = h]

isValid(r) == r.w > 0 /\ r.h > 0
isEmpty(r) == r.w <= 0 \/ r.h <= 0

normalized(r) ==
    LET a == IF r.w < 0 THEN [r EXCEPT !.x = r.x + r.w, !.w = -r.w] ELSE r
    IN  IF a.h < 0 THEN [a EXCEPT !.y = a.y + a.h, !.h = -a.h] ELSE a

\* QRectF::toRect: a QRect in whole pixels, here as x, y, w, h
toRect(r) ==
    Rect(qRound(r.x), qRound(r.y),
         qRound(r.x + r.w) - qRound(r.x), qRound(r.y + r.h) - qRound(r.y))

\* QRectF( QRect )
fromRect(q) == Rect(P(q.x), P(q.y), P(q.w), P(q.h))

\* QRegion( a ).subtracted( b ).boundingRect() for QRects a, b: the bounding
\* box of the pixels of a that are not in b; the default QRect when none is left
subtractedBoundingRect(a, b) ==
    IF isEmpty(a) THEN Rect(0, 0, 0, 0)
    ELSE IF isEmpty(b) \/ right(b) <= left(a) \/ left(b) >= right(a)
                       \/ bottom(b) <= top(a) \/ top(b) >= bottom(a)
    THEN a
    ELSE
      LET coversV == top(b) <= top(a) /\ bottom(b) >= bottom(a)
          coversH == left(b) <= left(a) /\ right(b) >= right(a)
          l == IF coversV /\ left(b) <= left(a) THEN right(b) ELSE left(a)
          r == IF coversV /\ right(b) >= right(a) THEN left(b) ELSE right(a)
          t == IF coversH /\ top(b) <= top(a) THEN bottom(b) ELSE top(a)
          u == IF coversH /\ bottom(b) >= bottom(a) THEN top(b) ELSE bottom(a)
      IN  IF coversV /\ coversH THEN Rect(0, 0, 0, 0)
          ELSE Rect(l, t, r - l, u - t)

(***************************************************************************)
(* rationals for the legend ratio (a double in the code)                   *)
(***************************************************************************)
Ratio(n, d) == [num |-> n, den |-> d]
RatioLess(a, b) == a.num * b.den < b.num * a.den
\* a comparison with NaN is false
RatioLeq(a, b) == a.den # 0 /\ b.den # 0 /\ a.num * b.den <= b.num * a.den
RatioOne == Ratio(1, 1)
RatioZero == Ratio(0, 1)
\* the double NaN (a number has den > 0)
RatioNaN == Ratio(0, 0)
\* the default vertical / horizontal ratios 0.33 and 0.5
RatioTopBottom == Ratio(33, 100)
RatioLeftRight == Ratio(1, 2)

\* int( v * ratio ) for a coordinate v >= 0 and a ratio >= 0: whole pixels
IntTimesRatio(v, q) == (v * q.num) \div (Unit * q.den)

(***************************************************************************)
(* The collaborators a QwtPlot hands to the layout.  A plot is a record    *)
(*   legend : [present, isEmpty, frameWidth, hScrollExtent, vScrollExtent, *)
(*             hintW, hintH, area]                                         *)
(*   title, footer : [present, text, font, frameWidth]   (QwtTextLabel)    *)
(*   axis : [Axes -> scale widget]                                         *)
(*   canvas : [left, top, right, bottom]      (contentsMargins)            *)
(* A QwtText is [isEmpty, paintUsingTextFont, len, font]: len is the width *)
(* of the text set in one line (pixels), font the height of a line.        *)
(***************************************************************************)
Text(e, own, len, font) ==
    [isEmpty |-> e, paintUsingTextFont |-> own, len |-> len, font |-> font]

NoText == Text(TRUE, FALSE, 0, 0)

\* QwtText::setFont
setFont(text, font) == [text EXCEPT !.font = font]

\* QwtText::heightForWidth( double ): the lines needed to break len pixels of
\* text into lines of width w, times the line height (a coordinate)
heightForWidth(text, w) ==
    IF text.isEmpty THEN 0
    ELSE text.font * CeilDiv(text.len, Max(1, qwtFloor(w)))

\* QwtScaleWidget::titleHeightForWidth( int ): whole pixels
titleHeightForWidth(scaleWidget, width) ==
    IF scaleWidget.title.isEmpty THEN 0
    ELSE scaleWidget.title.font * CeilDiv(scaleWidget.title.len, Max(1, width))

QWIDGETSIZE_MAX == 16777215

\* QwtScaleWidget::dimForLength( length, font ): the extent of the scale
\* itself plus the height of its title broken to that length
dimForLength(scaleWidget, length) ==
    scaleWidget.dim + titleHeightForWidth(scaleWidget, length)

\* QwtAbstractLegend::heightForWidth( int ); 0 for a legend that has none
legendHeightForWidth(legend, w) ==
    IF legend.area = 0 THEN 0 ELSE CeilDiv(legend.area, Max(1, w))

(***************************************************************************)
(* QwtPlotLayout::PrivateData                                              *)
(***************************************************************************)
VARIABLES
    titleRect, footerRect, legendRect, scaleRect, canvasRect,
    layoutData,
    legendPos, legendRatio, spacing, canvasMargin, alignCanvasToScales,
    plotWidget,   \* the QwtPlot the layout belongs to (its widgets)
    last          \* the last call and what it computed on the way (history)

cfgVars == <<legendPos, legendRatio, spacing, canvasMargin, alignCanvasToScales>>
rectVars == <<titleRect, footerRect, legendRect, scaleRect, canvasRect>>
vars == <<titleRect, footerRect, legendRect, scaleRect, canvasRect,
          layoutData, legendPos, legendRatio, spacing, canvasMargin,
          alignCanvasToScales, plotWidget, last>>

(***************************************************************************)
(* LayoutData::init                                                        *)
(***************************************************************************)
\* a variant that keeps the legend data of an earlier call once it has some
InitLegendDataCached(old, plot, rect) ==
    IF plot.legend.present /\ old.legend.hint.w < 0
    THEN LET w == Min(plot.legend.hintW, qwtFloor(rect.w))
             h0 == legendHeightForWidth(plot.legend, w)
             h == IF h0 <= 0 THEN plot.legend.hintH ELSE h0
         IN  [frameWidth |-> plot.legend.frameWidth,
              hScrollExtent |-> plot.legend.hScrollExtent,
              vScrollExtent |-> plot.legend.vScrollExtent,
              hint |-> [w |-> w, h |-> h]]
    ELSE old.legend

InitLegendData(old, plot, rect) ==
    IF plot.legend.present
    THEN LET w == Min(plot.legend.hintW, qwtFloor(rect.w))
             h0 == legendHeightForWidth(plot.legend, w)
             h == IF h0 <= 0 THEN plot.legend.hintH ELSE h0
         IN  [frameWidth |-> plot.legend.frameWidth,
              hScrollExtent |-> plot.legend.hScrollExtent,
              vScrollExtent |-> plot.legend.vScrollExtent,
              hint |-> [w |-> w, h |-> h]]
    ELSE old.legend

InitLabelData(label) ==
    IF label.present
    THEN [text |-> IF label.text.paintUsingTextFont THEN label.text
                   ELSE setFont(label.text, label.font),
          frameWidth |-> label.frameWidth]
    ELSE [text |-> NoText, frameWidth |-> 0]

InitScaleData(old, scaleWidget) ==
    IF scaleWidget.isEnabled
    THEN [isEnabled |-> TRUE,
          scaleWidget |-> scaleWidget,
          start |-> scaleWidget.startBorderDist,
          end |-> scaleWidget.endBorderDist,
          baseLineOffset |-> scaleWidget.margin,
          tickOffset |-> P(scaleWidget.margin)
              + (IF scaleWidget.hasTicks THEN scaleWidget.maxTickLength ELSE 0),
          dimWithoutTitle |-> dimForLength(scaleWidget, QWIDGETSIZE_MAX)
              - (IF ~scaleWidget.title.isEmpty
                 THEN titleHeightForWidth(scaleWidget, QWIDGETSIZE_MAX) ELSE 0)]
    ELSE [isEnabled |-> FALSE,
          scaleWidget |-> old.scaleWidget,
          start |-> 0, end |-> 0, baseLineOffset |-> 0, tickOffset |-> 0,
          dimWithoutTitle |-> 0]

InitCanvasData(plot) ==
    [contentsMargins |-> PerAxis(plot.canvas.left, plot.canvas.right,
                                 plot.canvas.bottom, plot.canvas.top)]

LayoutDataInit(old, plot, rect) ==
    [legend |-> InitLegendData(old, plot, rect),
     title |-> InitLabelData(plot.title),
     footer |-> InitLabelData(plot.footer),
     scale |-> PerAxis(InitScaleData(old.scale[yLeft], plot.axis[yLeft]),
                       InitScaleData(old.scale[yRight], plot.axis[yRight]),
                       InitScaleData(old.scale[xBottom], plot.axis[xBottom]),
                       InitScaleData(old.scale[xTop], plot.axis[xTop])),
     canvas |-> InitCanvasData(plot)]

(***************************************************************************)
(* Configuration                                                           *)
(***************************************************************************)
\* a variant that stores a margin below -1 as it is
setCanvasMarginValueUnclamped(margin) == U32(margin)

\* setCanvasMargin( margin, axis ): the margin is stored in an unsigned int
setCanvasMarginValue(margin) == U32(IF margin < -1 THEN -1 ELSE margin)

\* a variant without the range check of the axis
setCanvasMarginStoreUnchecked(cm, margin, axis) ==
    IF axis = -1
    THEN AllAxes(setCanvasMarginValue(margin))
    ELSE [cm EXCEPT ![axis % axisCnt] = setCanvasMarginValue(margin)]

setCanvasMarginStore(cm, margin, axis) ==
    IF axis = -1
    THEN AllAxes(setCanvasMarginValue(margin))
    ELSE IF axis >= 0 /\ axis < axisCnt
    THEN [cm EXCEPT ![axis] = setCanvasMarginValue(margin)]
    ELSE cm

\* canvasMargin( axisId ): the unsigned field returned as an int
canvasMarginOf(cm, axisId) ==
    IF axisId < 0 \/ axisId >= axisCnt THEN 0 ELSE S32(cm[axisId])

canvasMarginGet(axisId) == canvasMarginOf(canvasMargin, axisId)

\* alignCanvasToScale( axisId )
alignCanvasToScale(axisId) ==
    IF axisId < 0 \/ axisId >= axisCnt THEN FALSE ELSE alignCanvasToScales[axisId]

\* a variant that stores a ratio above 1.0 as it is
setLegendPositionValueUnclamped(oldPos, oldRatio, pos, ratio) ==
    IF pos \in {"TopLegend", "BottomLegend"}
    THEN [pos |-> pos,
          ratio |-> IF RatioLeq(ratio, RatioZero) THEN RatioTopBottom ELSE ratio]
    ELSE IF pos \in {"LeftLegend", "RightLegend"}
    THEN [pos |-> pos,
          ratio |-> IF RatioLeq(ratio, RatioZero) THEN RatioLeftRight ELSE ratio]
    ELSE [pos |-> oldPos, ratio |-> oldRatio]

\* a variant that keeps the ratio it has when none is given
setLegendPositionValueKeepingRatio(oldPos, oldRatio, pos, ratio) ==
    LET r1 == IF RatioLess(RatioOne, ratio) THEN RatioOne ELSE ratio
    IN  IF pos \in LegendPositions
        THEN [pos |-> pos,
              ratio |-> IF RatioLeq(r1, RatioZero) THEN oldRatio ELSE r1]
        ELSE [pos |-> oldPos, ratio |-> oldRatio]

\* setLegendPosition( pos, ratio ): the new legendPos and legendRatio
setLegendPositionValue(oldPos, oldRatio, pos, ratio) ==
    LET r1 == IF RatioLess(RatioOne, ratio) THEN RatioOne ELSE ratio
    IN  IF pos \in {"TopLegend", "BottomLegend"}
        THEN [pos |-> pos,
              ratio |-> IF RatioLeq(r1, RatioZero) THEN RatioTopBottom ELSE r1]
        ELSE IF pos \in {"LeftLegend", "RightLegend"}
        THEN [pos |-> pos,
              ratio |-> IF RatioLeq(r1, RatioZero) THEN RatioLeftRight ELSE r1]
        ELSE [pos |-> oldPos, ratio |-> oldRatio]

\* invalidate(): the value every output rectangle gets
invalidateRect == NullRect

Call(op, args) == [op |-> op, args |-> args]

SetCanvasMargin(margin, axis) ==
    /\ canvasMargin' = setCanvasMarginStore(canvasMargin, margin, axis)
    /\ last' = Call("setCanvasMargin", <<margin, axis>>)
    /\ UNCHANGED <<plotWidget, rectVars, layoutData, legendPos, legendRatio, spacing,
                   alignCanvasToScales>>

SetAlignCanvasToScales(on) ==
    /\ alignCanvasToScales' = AllAxes(on)
    /\ last' = Call("setAlignCanvasToScales", <<on>>)
    /\ UNCHANGED <<plotWidget, rectVars, layoutData, legendPos, legendRatio, spacing,
                   canvasMargin>>

SetAlignCanvasToScale(axisId, on) ==
    /\ alignCanvasToScales' =
          IF axisId >= 0 /\ axisId < axisCnt
          THEN [alignCanvasToScales EXCEPT ![axisId] = on]
          ELSE alignCanvasToScales
    /\ last' = Call("setAlignCanvasToScale", <<axisId, on>>)
    /\ UNCHANGED <<plotWidget, rectVars, layoutData, legendPos, legendRatio, spacing,
                   canvasMargin>>

SetSpacing(s) ==
    /\ spacing' = Max(0, s)
    /\ last' = Call("setSpacing", <<s>>)
    /\ UNCHANGED <<plotWidget, rectVars, layoutData, legendPos, legendRatio, canvasMargin,
                   alignCanvasToScales>>

SetLegendPosition(pos, ratio) ==
    /\ legendPos' =
          setLegendPositionValue(legendPos, legendRatio, pos, ratio).pos
    /\ legendRatio' =
          setLegendPositionValue(legendPos, legendRatio, pos, ratio).ratio
    /\ last' = Call("setLegendPosition", <<pos, ratio>>)
    /\ UNCHANGED <<plotWidget, rectVars, layoutData, spacing, canvasMargin,
                   alignCanvasToScales>>

\* setLegendPosition( pos ) is setLegendPosition( pos, 0.0 )
SetLegendPosition1(pos) ==
    /\ legendPos' =
          setLegendPositionValue(legendPos, legendRatio, pos, RatioZero).pos
    /\ legendRatio' =
          setLegendPositionValue(legendPos, legendRatio, pos, RatioZero).ratio
    /\ last' = Call("setLegendPosition", <<pos>>)
    /\ UNCHANGED <<plotWidget, rectVars, layoutData, spacing, canvasMargin,
                   alignCanvasToScales>>

\* setLegendRatio( ratio ) is setLegendPosition( legendPosition(), ratio )
SetLegendRatio(ratio) ==
    /\ legendPos' =
          setLegendPositionValue(legendPos, legendRatio, legendPos, ratio).pos
    /\ legendRatio' =
          setLegendPositionValue(legendPos, legendRatio, legendPos, ratio).ratio
    /\ last' = Call("setLegendRatio", <<ratio>>)
    /\ UNCHANGED <<plotWidget, rectVars, layoutData, spacing, canvasMargin,
                   alignCanvasToScales>>

SetTitleRect(rect) ==
    /\ titleRect' = rect
    /\ last' = Call("setTitleRect", <<rect>>)
    /\ UNCHANGED <<footerRect, legendRect, scaleRect, canvasRect, layoutData,
                   cfgVars, plotWidget>>

SetFooterRect(rect) ==
    /\ footerRect' = rect
    /\ last' = Call("setFooterRect", <<rect>>)
    /\ UNCHANGED <<titleRect, legendRect, scaleRect, canvasRect, layoutData,
                   cfgVars, plotWidget>>

SetLegendRect(rect) ==
    /\ legendRect' = rect
    /\ last' = Call("setLegendRect", <<rect>>)
    /\ UNCHANGED <<titleRect, footerRect, scaleRect, canvasRect, layoutData,
                   cfgVars, plotWidget>>

\* a variant that gives the rectangle to every axis
SetScaleRectAllAxes(axis, rect) ==
    /\ scaleRect' = IF axis >= 0 /\ axis < axisCnt
                    THEN AllAxes(rect) ELSE scaleRect
    /\ last' = Call("setScaleRect", <<axis, rect>>)
    /\ UNCHANGED <<titleRect, footerRect, legendRect, canvasRect, layoutData,
                   cfgVars, plotWidget>>

SetScaleRect(axis, rect) ==
    /\ scaleRect' = IF axis >= 0 /\ axis < axisCnt
                    THEN [scaleRect EXCEPT ![axis] = rect] ELSE scaleRect
    /\ last' = Call("setScaleRect", <<axis, rect>>)
    /\ UNCHANGED <<titleRect, footerRect, legendRect, canvasRect, layoutData,
                   cfgVars, plotWidget>>

SetCanvasRect(rect) ==
    /\ canvasRect' = rect
    /\ last' = Call("setCanvasRect", <<rect>>)
    /\ UNCHANGED <<titleRect, footerRect, legendRect, scaleRect, layoutData,
                   cfgVars, plotWidget>>

\* a variant that forgets the legend rectangle
InvalidateKeepingLegend ==
    /\ titleRect' = invalidateRect
    /\ footerRect' = invalidateRect
    /\ canvasRect' = invalidateRect
    /\ scaleRect' = AllAxes(invalidateRect)
    /\ last' = [op |-> "invalidate", args |-> <<>>,
                hadRect |-> \/ isValid(titleRect) \/ isValid(footerRect)
                            \/ isValid(legendRect) \/ isValid(canvasRect)
                            \/ \E a \in Axes : isValid(scaleRect[a])]
    /\ UNCHANGED <<legendRect, layoutData, cfgVars, plotWidget>>

Invalidate ==
    /\ titleRect' = invalidateRect
    /\ footerRect' = invalidateRect
    /\ legendRect' = invalidateRect
    /\ canvasRect' = invalidateRect
    /\ scaleRect' = AllAxes(invalidateRect)
    /\ last' = [op |-> "invalidate", args |-> <<>>,
                \* history: an output rectangle was valid when the call came
                hadRect |-> \/ isValid(titleRect) \/ isValid(footerRect)
                            \/ isValid(legendRect) \/ isValid(canvasRect)
                            \/ \E a \in Axes : isValid(scaleRect[a])]
    /\ UNCHANGED <<layoutData, cfgVars, plotWidget>>

(***************************************************************************)
(* minimumSizeHint.  All values are whole pixels.                          *)
(***************************************************************************)
\* QwtScaleWidget::minimumSizeHint(): the length the border distances need
\* (at least the extent across), 2 pixels more, by the extent across; width
\* and height change places for a vertical axis
scaleMinimumSizeHint(scaleWidget, axis) ==
    LET len0 == scaleWidget.startBorderDist + scaleWidget.endBorderDist
        length == Max(len0, dimForLength(scaleWidget, len0))
    IN  IF axis = yLeft \/ axis = yRight
        THEN [w |-> dimForLength(scaleWidget, length), h |-> length + 2]
        ELSE [w |-> length + 2, h |-> dimForLength(scaleWidget, length)]

\* QwtTextLabel::heightForWidth( int )
labelHeightForWidth(label, width) ==
    qwtCeil(heightForWidth(InitLabelData(label).text, P(width)))
        + 2 * label.frameWidth

\* the first loop: scaleData[axis]
minScaleData(plot, axis) ==
    IF plot.axis[axis].isEnabled
    THEN [w |-> scaleMinimumSizeHint(plot.axis[axis], axis).w,
          h |-> scaleMinimumSizeHint(plot.axis[axis], axis).h,
          minLeft |-> plot.axis[axis].startBorderDist,
          minRight |-> plot.axis[axis].endBorderDist,
          tickOffset |-> plot.axis[axis].margin
              + (IF plot.axis[axis].hasTicks
                 THEN qwtCeil(plot.axis[axis].maxTickLength) ELSE 0)]
    ELSE [w |-> 0, h |-> 0, minLeft |-> 0, minRight |-> 0, tickOffset |-> 0]

\* canvasBorder[axis] = fw + canvasMargin[axis] + 1, an unsigned sum
minCanvasBorder(plot, axis) ==
    IntPlusUnsigned(plot.canvas.left + 1, canvasMargin[axis])

\* the second loop for one axis: sd is scaleData[] and cb canvasBorder[] as
\* the first loop left them (the loop changes the width of horizontal and
\* the height of vertical axes only, and reads the other extent)
minCorrected(sd, cb, axis) ==
    IF sd[axis].w # 0 /\ (axis = xBottom \/ axis = xTop)
    THEN [sd[axis] EXCEPT !.w = sd[axis].w
            - (IF sd[axis].minLeft > cb[yLeft] /\ sd[yLeft].w # 0
               THEN Min(sd[axis].minLeft - cb[yLeft], sd[yLeft].w) ELSE 0)
            - (IF sd[axis].minRight > cb[yRight] /\ sd[yRight].w # 0
               THEN Min(sd[axis].minRight - cb[yRight], sd[yRight].w) ELSE 0)]
    ELSE IF sd[axis].h # 0 /\ (axis = yLeft \/ axis = yRight)
    THEN [sd[axis] EXCEPT !.h = sd[axis].h
            - (IF sd[axis].minLeft > cb[xBottom] /\ sd[xBottom].h # 0
               THEN Min(sd[axis].minLeft - cb[xBottom], sd[xBottom].tickOffset)
               ELSE 0)
            - (IF sd[axis].minLeft > cb[xTop] /\ sd[xTop].h # 0
               THEN Min(sd[axis].minRight - cb[xTop], sd[xTop].tickOffset)
               ELSE 0)]
    ELSE sd[axis]

\* one pass of the loop over title and footer: size is [w, h], yw the
\* widths of the vertical axes, 0 when both are enabled
minLabelAdded(label, size, yw) ==
    IF label.present /\ ~label.text.isEmpty
    THEN IF labelHeightForWidth(label, size.w - yw) > size.w - yw
         THEN [w |-> labelHeightForWidth(label, size.w - yw) + yw,
               h |-> size.h + spacing + labelHeightForWidth(label,
                            labelHeightForWidth(label, size.w - yw))]
         ELSE [w |-> size.w,
               h |-> size.h + spacing + labelHeightForWidth(label, size.w - yw)]
    ELSE size

\* int( v / ( 1.0 - legendRatio ) ) for a legendRatio below 1.0
IntOverOneMinusRatio(v, q) ==
    IF v >= 0 THEN (v * q.den) \div (q.den - q.num)
    ELSE -(((-v) * q.den) \div (q.den - q.num))

\* the legend contribution
minLegendAdded(legend, size) ==
    IF legend.present /\ ~legend.isEmpty
    THEN IF legendPos \in {"LeftLegend", "RightLegend"}
         THEN LET w == size.w + (IF legend.frameWidth > 0 THEN spacing ELSE 0)
                  legendW == legend.hintW
                      + (IF legendHeightForWidth(legend, legend.hintW) > size.h
                         THEN legend.hScrollExtent ELSE 0)
              IN  [w |-> w + spacing
                         + (IF RatioLess(legendRatio, RatioOne)
                            THEN Min(legendW, IntOverOneMinusRatio(w, legendRatio))
                            ELSE legendW),
                   h |-> size.h]
         ELSE LET h == size.h + (IF legend.frameWidth > 0 THEN spacing ELSE 0)
                  legendH == legendHeightForWidth(legend,
                                                  Min(legend.hintW, size.w))
              IN  [w |-> size.w,
                   h |-> h + spacing
                         + (IF RatioLess(legendRatio, RatioOne)
                            THEN Min(legendH, IntOverOneMinusRatio(h, legendRatio))
                            ELSE legendH)]
    ELSE size

\* the size of canvas and axes, from the corrected scaleData[]
minPlotSize(plot, sd) ==
    [w |-> sd[yLeft].w + sd[yRight].w
           + Max(Max(sd[xBottom].w, sd[xTop].w)
                   + plot.canvas.left + 1 + plot.canvas.right + 1,
                 plot.canvas.minimumSize.w),
     h |-> sd[xBottom].h + sd[xTop].h
           + Max(Max(sd[yLeft].h, sd[yRight].h)
                   + plot.canvas.top + 1 + plot.canvas.bottom + 1,
                 plot.canvas.minimumSize.h)]

minSizeFrom(plot, sd) ==
    minLegendAdded(plot.legend,
        minLabelAdded(plot.footer,
            minLabelAdded(plot.title, minPlotSize(plot, sd),
                IF plot.axis[yLeft].isEnabled /\ plot.axis[yRight].isEnabled
                THEN 0 ELSE sd[yLeft].w + sd[yRight].w),
            IF plot.axis[yLeft].isEnabled /\ plot.axis[yRight].isEnabled
            THEN 0 ELSE sd[yLeft].w + sd[yRight].w))

\* everything minimumSizeHint( plot ) computes: scaleData[] after the first
\* and after the second loop, and the size returned
minimumSizeHintFrom(plot, sd, cb) ==
    [hint |-> sd,
     corrected |-> [axis \in Axes |-> minCorrected(sd, cb, axis)],
     size |-> minSizeFrom(plot, [axis \in Axes |-> minCorrected(sd, cb, axis)])]

minimumSizeHint(plot) ==
    minimumSizeHintFrom(plot,
                        PerAxis(minScaleData(plot, yLeft),
                                minScaleData(plot, yRight),
                                minScaleData(plot, xBottom),
                                minScaleData(plot, xTop)),
                        PerAxis(minCanvasBorder(plot, yLeft),
                                minCanvasBorder(plot, yRight),
                                minCanvasBorder(plot, xBottom),
                                minCanvasBorder(plot, xTop)))

\* a variant that invalidates the layout on the way
MinimumSizeHintInvalidating(plot) ==
    /\ titleRect' = invalidateRect
    /\ footerRect' = invalidateRect
    /\ legendRect' = invalidateRect
    /\ canvasRect' = invalidateRect
    /\ scaleRect' = AllAxes(invalidateRect)
    /\ last' = [op |-> "minimumSizeHint", args |-> <<>>,
                hint |-> minimumSizeHint(plot).hint,
                corrected |-> minimumSizeHint(plot).corrected,
                size |-> minimumSizeHint(plot).size]
    /\ UNCHANGED <<layoutData, cfgVars, plotWidget>>

\* minimumSizeHint( plot ) const, called with the plot of the layout
MinimumSizeHint(plot) ==
    /\ last' = [op |-> "minimumSizeHint", args |-> <<>>,
                hint |-> minimumSizeHint(plot).hint,
                corrected |-> minimumSizeHint(plot).corrected,
                size |-> minimumSizeHint(plot).size]
    /\ UNCHANGED <<rectVars, layoutData, cfgVars, plotWidget>>

(***************************************************************************)
(* layoutLegend, alignLegend                                               *)
(***************************************************************************)
\* a variant that does not cap the legend by legendRatio
layoutLegendDimUncapped(ld, options, rect) ==
    IF legendPos \in {"LeftLegend", "RightLegend"}
    THEN LET dim == ld.legend.hint.w
         IN  IF "IgnoreScrollbars" \notin options /\ P(ld.legend.hint.h) > rect.h
             THEN dim + ld.legend.hScrollExtent
             ELSE dim
    ELSE Max(ld.legend.hint.h, ld.legend.vScrollExtent)

\* the extent of the legend across its edge (int dim), whole pixels
layoutLegendDim(ld, options, rect) ==
    IF legendPos \in {"LeftLegend", "RightLegend"}
    THEN LET dim == Min(ld.legend.hint.w, IntTimesRatio(rect.w, legendRatio))
         IN  IF "IgnoreScrollbars" \notin options /\ P(ld.legend.hint.h) > rect.h
             THEN dim + ld.legend.hScrollExtent
             ELSE dim
    ELSE Max(Min(ld.legend.hint.h, IntTimesRatio(rect.h, legendRatio)),
             ld.legend.vScrollExtent)

\* a variant that cuts the legend off the left or top edge whatever the
\* position
layoutLegendUnanchored(ld, options, rect) ==
    LET dim == P(layoutLegendDim(ld, options, rect))
    IN  IF legendPos \in {"LeftLegend", "RightLegend"}
        THEN setWidth(rect, dim)
        ELSE setHeight(rect, dim)

layoutLegend(ld, options, rect) ==
    LET dim == P(layoutLegendDim(ld, options, rect))
    IN  CASE legendPos = "LeftLegend" -> setWidth(rect, dim)
          [] legendPos = "RightLegend" ->
                setWidth(setX(rect, right(rect) - dim), dim)
          [] legendPos = "TopLegend" -> setHeight(rect, dim)
          [] legendPos = "BottomLegend" ->
                setHeight(setY(rect, bottom(rect) - dim), dim)

alignLegend(ld, canvas, legend) ==
    IF legendPos \in {"BottomLegend", "TopLegend"}
    THEN IF P(ld.legend.hint.w) < canvas.w
         THEN setWidth(setX(legend, canvas.x), canvas.w)
         ELSE legend
    ELSE IF P(ld.legend.hint.h) < canvas.h
         THEN setHeight(setY(legend, canvas.y), canvas.h)
         ELSE legend

(***************************************************************************)
(* expandLineBreaks                                                        *)
(***************************************************************************)
expandBackboneOffset(ld, options, axis) ==
    LET b == IF "IgnoreFrames" \notin options
             THEN ld.canvas.contentsMargins[axis] ELSE 0
    IN  IF ~alignCanvasToScales[axis]
        THEN IntPlusUnsigned(b, canvasMargin[axis]) ELSE b

\* the height d of the title or footer for the current axis dimensions
expandLabelDim(ld, options, rect, dimAxis, label) ==
    LET w == IF ld.scale[yLeft].isEnabled # ld.scale[yRight].isEnabled
             THEN rect.w - P(dimAxis[yLeft] + dimAxis[yRight])
             ELSE rect.w
    IN  qwtCeil(heightForWidth(label.text, w))
          + (IF "IgnoreFrames" \notin options THEN 2 * label.frameWidth ELSE 0)

\* the length left for the backbone of an axis (a double)
expandAxisLength(ld, options, rect, dimTitle, dimAxis, axis) ==
    LET sd == ld.scale[axis]
        bo(a) == expandBackboneOffset(ld, options, a)
    IN  IF axis = xTop \/ axis = xBottom
        THEN rect.w - P(dimAxis[yLeft]) - P(dimAxis[yRight])
               - P(sd.start + sd.end)
               - (IF dimAxis[yRight] > 0 THEN P(1) ELSE 0)
               + P(Min(dimAxis[yLeft], sd.start - bo(yLeft)))
               + P(Min(dimAxis[yRight], sd.end - bo(yRight)))
        ELSE rect.h - P(dimAxis[xTop]) - P(dimAxis[xBottom])
               - P(sd.start + sd.end)
               - P(1)
               - (IF dimAxis[xBottom] <= 0 THEN P(1) ELSE 0)
               - (IF dimAxis[xTop] <= 0 THEN P(1) ELSE 0)
               + (IF dimAxis[xBottom] > 0
                  THEN Min(ld.scale[xBottom].tickOffset,
                           P(sd.start - bo(xBottom))) ELSE 0)
               + (IF dimAxis[xTop] > 0
                  THEN Min(ld.scale[xTop].tickOffset,
                           P(sd.end - bo(xTop))) ELSE 0)
               - (IF dimTitle > 0 THEN P(dimTitle + spacing) ELSE 0)

expandAxisDim(ld, options, rect, dimTitle, dimAxis, axis) ==
    LET sd == ld.scale[axis]
        length == expandAxisLength(ld, options, rect, dimTitle, dimAxis, axis)
    IN  sd.dimWithoutTitle
          + (IF ~sd.scaleWidget.title.isEmpty
             THEN titleHeightForWidth(sd.scaleWidget, qwtFloor(length)) ELSE 0)

\* the for loop over the axes inside one pass of the while loop
RECURSIVE expandAxes(_, _, _, _, _, _)
expandAxes(ld, options, rect, dimTitle, dimAxis, axis) ==
    IF axis >= axisCnt THEN dimAxis
    ELSE IF ld.scale[axis].isEnabled
    THEN LET d == expandAxisDim(ld, options, rect, dimTitle, dimAxis, axis)
         IN  expandAxes(ld, options, rect, dimTitle,
                        IF d > dimAxis[axis]
                        THEN [dimAxis EXCEPT ![axis] = d] ELSE dimAxis,
                        axis + 1)
    ELSE expandAxes(ld, options, rect, dimTitle, dimAxis, axis + 1)

\* one pass of the while loop: dims is [title, footer, axis, passes]
expandPass(ld, options, rect, dims) ==
    LET dT == IF ~("IgnoreTitle" \in options \/ ld.title.text.isEmpty)
              THEN expandLabelDim(ld, options, rect, dims.axis, ld.title)
              ELSE 0
        dimTitle == IF dT > dims.title THEN dT ELSE dims.title
        dF == IF ~("IgnoreFooter" \in options \/ ld.footer.text.isEmpty)
              THEN expandLabelDim(ld, options, rect, dims.axis, ld.footer)
              ELSE 0
        dimFooter == IF dF > dims.footer THEN dF ELSE dims.footer
    IN  [title |-> dimTitle, footer |-> dimFooter,
         axis |-> expandAxes(ld, options, rect, dimTitle, dims.axis, 0),
         passes |-> dims.passes + 1]

\* a variant of the while loop that makes one pass only
expandLoopOnePass(ld, options, rect, dims) ==
    expandPass(ld, options, rect, dims)

\* a variant of the while loop that makes one more pass after the pass that
\* changes nothing
RECURSIVE expandLoopExtraPass(_, _, _, _)
expandLoopExtraPass(ld, options, rect, dims) ==
    LET next == expandPass(ld, options, rect, dims)
        done == /\ next.title = dims.title
                /\ next.footer = dims.footer
                /\ next.axis = dims.axis
    IN  IF done THEN expandPass(ld, options, rect, next)
        ELSE expandLoopExtraPass(ld, options, rect, next)

RECURSIVE expandLoop(_, _, _, _)
expandLoop(ld, options, rect, dims) ==
    LET next == expandPass(ld, options, rect, dims)
        done == /\ next.title = dims.title
                /\ next.footer = dims.footer
                /\ next.axis = dims.axis
    IN  IF done THEN next ELSE expandLoop(ld, options, rect, next)

expandLineBreaks(ld, options, rect) ==
    expandLoop(ld, options, rect,
               [title |-> 0, footer |-> 0, axis |-> AllAxes(0),
                passes |-> 0])

(***************************************************************************)
(* alignScales.  s is [canvas, scale]: the canvasRect and scaleRect[]      *)
(* arguments, changed in place by the code.                                *)
(***************************************************************************)
\* a variant that counts the canvas margin also when the canvas is aligned
alignBackboneOffsetWithMargin(ld, options, axis) ==
    LET b == IntPlusUnsigned(0, canvasMargin[axis])
    IN  IF "IgnoreFrames" \notin options
        THEN b + ld.canvas.contentsMargins[axis] ELSE b

alignBackboneOffset(ld, options, axis) ==
    LET b == IF ~alignCanvasToScales[axis]
             THEN IntPlusUnsigned(0, canvasMargin[axis]) ELSE 0
    IN  IF "IgnoreFrames" \notin options
        THEN b + ld.canvas.contentsMargins[axis] ELSE b

\* a variant that moves the left edge of the canvas whether or not the canvas
\* is aligned to the left scale
alignLeftEndUnflagged(ld, options, s, axis) ==
    LET axisRect == s.scale[axis]
        leftScaleRect == s.scale[yLeft]
        leftOffset == alignBackboneOffset(ld, options, yLeft) - ld.scale[axis].start
    IN  IF isValid(leftScaleRect)
        THEN LET dx == P(leftOffset) + leftScaleRect.w
             IN  IF dx < 0
                 THEN [s EXCEPT !.canvas = setLeft(s.canvas,
                          Max(left(s.canvas), left(axisRect) - dx))]
                 ELSE [s EXCEPT !.scale[axis] = setLeft(axisRect,
                          Max(left(axisRect) + P(leftOffset), left(leftScaleRect)))]
        ELSE IF leftOffset < 0
             THEN [s EXCEPT !.canvas = setLeft(s.canvas,
                      Max(left(s.canvas), left(axisRect) - P(leftOffset)))]
             ELSE IF leftOffset > 0
                  THEN [s EXCEPT !.scale[axis] =
                           setLeft(axisRect, left(axisRect) + P(leftOffset))]
                  ELSE s

\* a horizontal axis against the left scale
alignLeftEnd(ld, options, s, axis) ==
    LET axisRect == s.scale[axis]
        leftScaleRect == s.scale[yLeft]
        leftOffset == alignBackboneOffset(ld, options, yLeft) - ld.scale[axis].start
    IN  IF isValid(leftScaleRect)
        THEN LET dx == P(leftOffset) + leftScaleRect.w
             IN  IF alignCanvasToScales[yLeft] /\ dx < 0
                 THEN [s EXCEPT !.canvas = setLeft(s.canvas,
                          Max(left(s.canvas), left(axisRect) - dx))]
                 ELSE [s EXCEPT !.scale[axis] = setLeft(axisRect,
                          Max(left(axisRect) + P(leftOffset), left(leftScaleRect)))]
        ELSE IF alignCanvasToScales[yLeft] /\ leftOffset < 0
             THEN [s EXCEPT !.canvas = setLeft(s.canvas,
                      Max(left(s.canvas), left(axisRect) - P(leftOffset)))]
             ELSE IF leftOffset > 0
                  THEN [s EXCEPT !.scale[axis] =
                           setLeft(axisRect, left(axisRect) + P(leftOffset))]
                  ELSE s

\* a horizontal axis against the right scale
alignRightEnd(ld, options, s, axis) ==
    LET axisRect == s.scale[axis]
        rightScaleRect == s.scale[yRight]
        rightOffset ==
            alignBackboneOffset(ld, options, yRight) - ld.scale[axis].end + 1
    IN  IF isValid(rightScaleRect)
        THEN LET dx == P(rightOffset) + rightScaleRect.w
                 s1 == IF alignCanvasToScales[yRight] /\ dx < 0
                       THEN [s EXCEPT !.canvas = setRight(s.canvas,
                                Min(right(s.canvas), right(axisRect) + dx))]
                       ELSE s
             IN  [s1 EXCEPT !.scale[axis] = setRight(axisRect,
                     Min(right(axisRect) - P(rightOffset), right(rightScaleRect)))]
        ELSE IF alignCanvasToScales[yRight] /\ rightOffset < 0
             THEN [s EXCEPT !.canvas = setRight(s.canvas,
                      Min(right(s.canvas), right(axisRect) + P(rightOffset)))]
             ELSE IF rightOffset > 0
                  THEN [s EXCEPT !.scale[axis] =
                           setRight(axisRect, right(axisRect) - P(rightOffset))]
                  ELSE s

\* a vertical axis against the bottom scale
alignBottomEnd(ld, options, s, axis) ==
    LET axisRect == s.scale[axis]
        bottomScaleRect == s.scale[xBottom]
        bottomOffset ==
            alignBackboneOffset(ld, options, xBottom) - ld.scale[axis].end + 1
    IN  IF isValid(bottomScaleRect)
        THEN LET dy == P(bottomOffset) + bottomScaleRect.h
             IN  IF alignCanvasToScales[xBottom] /\ dy < 0
                 THEN [s EXCEPT !.canvas = setBottom(s.canvas,
                          Min(bottom(s.canvas), bottom(axisRect) + dy))]
                 ELSE LET maxBottom == top(bottomScaleRect)
                                         + ld.scale[xBottom].tickOffset
                      IN  [s EXCEPT !.scale[axis] = setBottom(axisRect,
                              Min(bottom(axisRect) - P(bottomOffset), maxBottom))]
        ELSE IF alignCanvasToScales[xBottom] /\ bottomOffset < 0
             THEN [s EXCEPT !.canvas = setBottom(s.canvas,
                      Min(bottom(s.canvas), bottom(axisRect) + P(bottomOffset)))]
             ELSE IF bottomOffset > 0
                  THEN [s EXCEPT !.scale[axis] =
                           setBottom(axisRect, bottom(axisRect) - P(bottomOffset))]
                  ELSE s

\* a vertical axis against the top scale
alignTopEnd(ld, options, s, axis) ==
    LET axisRect == s.scale[axis]
        topScaleRect == s.scale[xTop]
        topOffset == alignBackboneOffset(ld, options, xTop) - ld.scale[axis].start
    IN  IF isValid(topScaleRect)
        THEN LET dy == P(topOffset) + topScaleRect.h
             IN  IF alignCanvasToScales[xTop] /\ dy < 0
                 THEN [s EXCEPT !.canvas = setTop(s.canvas,
                          Max(top(s.canvas), top(axisRect) - dy))]
                 ELSE LET minTop == bottom(topScaleRect)
                                      - ld.scale[xTop].tickOffset
                      IN  [s EXCEPT !.scale[axis] = setTop(axisRect,
                              Max(top(axisRect) + P(topOffset), minTop))]
        ELSE IF alignCanvasToScales[xTop] /\ topOffset < 0
             THEN [s EXCEPT !.canvas = setTop(s.canvas,
                      Max(top(s.canvas), top(axisRect) - P(topOffset)))]
             ELSE IF topOffset > 0
                  THEN [s EXCEPT !.scale[axis] =
                           setTop(axisRect, top(axisRect) + P(topOffset))]
                  ELSE s

\* the body of the first loop for one axis
alignPass1Axis(ld, options, s, axis) ==
    IF ~isValid(s.scale[axis]) THEN s
    ELSE IF axis = xTop \/ axis = xBottom
    THEN alignRightEnd(ld, options, alignLeftEnd(ld, options, s, axis), axis)
    ELSE alignTopEnd(ld, options, alignBottomEnd(ld, options, s, axis), axis)

\* a variant of the second loop that leaves the scales where they are
alignPass2AxisUnattached(ld, options, s, axis) == s

\* the body of the second loop for one axis
alignPass2Axis(ld, options, s, axis) ==
    LET sRect == s.scale[axis]
        frames == "IgnoreFrames" \notin options
        cm(a) == IF frames THEN P(ld.canvas.contentsMargins[a]) ELSE 0
    IN  IF ~isValid(sRect) THEN s
        ELSE IF axis = xBottom \/ axis = xTop
        THEN LET r1 == IF alignCanvasToScales[yLeft]
                       THEN setLeft(sRect, left(s.canvas)
                               - P(ld.scale[axis].start) + cm(yLeft))
                       ELSE sRect
                 r2 == IF alignCanvasToScales[yRight]
                       THEN setRight(r1, right(s.canvas) - P(1)
                               + P(ld.scale[axis].end) - cm(yRight))
                       ELSE r1
                 r3 == IF alignCanvasToScales[axis]
                       THEN IF axis = xTop
                            THEN setBottom(r2, top(s.canvas))
                            ELSE setTop(r2, bottom(s.canvas))
                       ELSE r2
             IN  [s EXCEPT !.scale[axis] = r3]
        ELSE LET r1 == IF alignCanvasToScales[xTop]
                       THEN setTop(sRect, top(s.canvas)
                               - P(ld.scale[axis].start) + cm(xTop))
                       ELSE sRect
                 r2 == IF alignCanvasToScales[xBottom]
                       THEN setBottom(r1, bottom(s.canvas) - P(1)
                               + P(ld.scale[axis].end) - cm(xBottom))
                       ELSE r1
                 r3 == IF alignCanvasToScales[axis]
                       THEN IF axis = yLeft
                            THEN setRight(r2, left(s.canvas))
                            ELSE setLeft(r2, right(s.canvas))
                       ELSE r2
             IN  [s EXCEPT !.scale[axis] = r3]

RECURSIVE alignPass1(_, _, _, _)
alignPass1(ld, options, s, axis) ==
    IF axis >= axisCnt THEN s
    ELSE alignPass1(ld, options, alignPass1Axis(ld, options, s, axis), axis + 1)

RECURSIVE alignPass2(_, _, _, _)
alignPass2(ld, options, s, axis) ==
    IF axis >= axisCnt THEN s
    ELSE alignPass2(ld, options, alignPass2Axis(ld, options, s, axis), axis + 1)

alignScales(ld, options, s) ==
    alignPass2(ld, options, alignPass1(ld, options, s, 0), 0)

(***************************************************************************)
(* activate                                                                *)
(***************************************************************************)
\* the rest of rect once the legend is taken from it
activateSubtractLegend(rect, legend) ==
    LET rest == fromRect(subtractedBoundingRect(toRect(rect), toRect(legend)))
    IN  CASE legendPos = "LeftLegend" -> setLeft(rest, left(rest) + P(spacing))
          [] legendPos = "RightLegend" -> setRight(rest, right(rest) - P(spacing))
          [] legendPos = "TopLegend" -> setTop(rest, top(rest) + P(spacing))
          [] legendPos = "BottomLegend" ->
                setBottom(rest, bottom(rest) - P(spacing))

\* a variant that leaves the title and footer in the rectangle of the canvas
activateLabelKeepingRect(ld, rect, dim, dimAxes, isTitle) ==
    LET r0 == IF isTitle
              THEN Rect(left(rect), top(rect), rect.w, P(dim))
              ELSE Rect(left(rect), bottom(rect) - P(dim), rect.w, P(dim))
        r1 == IF ld.scale[yLeft].isEnabled # ld.scale[yRight].isEnabled
              THEN setWidth(setX(r0, left(rect) + P(dimAxes[yLeft])),
                     rect.w - P(dimAxes[yLeft]) - P(dimAxes[yRight]))
              ELSE r0
    IN  [label |-> r1, rest |-> rect]

\* a variant that puts no spacing between title or footer and the rest
activateLabelNoSpacing(ld, rect, dim, dimAxes, isTitle) ==
    LET r0 == IF isTitle
              THEN Rect(left(rect), top(rect), rect.w, P(dim))
              ELSE Rect(left(rect), bottom(rect) - P(dim), rect.w, P(dim))
        rest == IF isTitle
                THEN setTop(rect, bottom(r0))
                ELSE setBottom(rect, top(r0))
        r1 == IF ld.scale[yLeft].isEnabled # ld.scale[yRight].isEnabled
              THEN setWidth(setX(r0, left(rest) + P(dimAxes[yLeft])),
                     rest.w - P(dimAxes[yLeft]) - P(dimAxes[yRight]))
              ELSE r0
    IN  [label |-> r1, rest |-> rest]

\* a variant that gives title and footer the whole width whatever axes are
\* enabled
activateLabelFullWidth(ld, rect, dim, dimAxes, isTitle) ==
    LET r0 == IF isTitle
              THEN Rect(left(rect), top(rect), rect.w, P(dim))
              ELSE Rect(left(rect), bottom(rect) - P(dim), rect.w, P(dim))
        rest == IF isTitle
                THEN setTop(rect, bottom(r0) + P(spacing))
                ELSE setBottom(rect, top(r0) - P(spacing))
    IN  [label |-> r0, rest |-> rest]

\* title (isTitle) or footer: its rectangle, and the rest of rect
activateLabel(ld, rect, dim, dimAxes, isTitle) ==
    LET r0 == IF isTitle
              THEN Rect(left(rect), top(rect), rect.w, P(dim))
              ELSE Rect(left(rect), bottom(rect) - P(dim), rect.w, P(dim))
        rest == IF isTitle
                THEN setTop(rect, bottom(r0) + P(spacing))
                ELSE setBottom(rect, top(r0) - P(spacing))
        r1 == IF ld.scale[yLeft].isEnabled # ld.scale[yRight].isEnabled
              THEN setWidth(setX(r0, left(rest) + P(dimAxes[yLeft])),
                     rest.w - P(dimAxes[yLeft]) - P(dimAxes[yRight]))
              ELSE r0
    IN  [label |-> r1, rest |-> rest]

\* a variant that does not move the canvas right of the left scale
activateCanvasRectAtLeft(rect, dimAxes) ==
    Rect(rect.x,
         rect.y + P(dimAxes[xTop]),
         rect.w - P(dimAxes[yRight]) - P(dimAxes[yLeft]),
         rect.h - P(dimAxes[xBottom]) - P(dimAxes[xTop]))

activateCanvasRect(rect, dimAxes) ==
    Rect(rect.x + P(dimAxes[yLeft]),
         rect.y + P(dimAxes[xTop]),
         rect.w - P(dimAxes[yRight]) - P(dimAxes[yLeft]),
         rect.h - P(dimAxes[xBottom]) - P(dimAxes[xTop]))

activateScaleRect(canvas, dimAxes, axis) ==
    LET dim == P(dimAxes[axis])
    IN  IF dimAxes[axis] = 0 THEN invalidateRect
        ELSE normalized(
          CASE axis = yLeft -> setWidth(setX(canvas, left(canvas) - dim), dim)
            [] axis = yRight -> setWidth(setX(canvas, right(canvas)), dim)
            [] axis = xBottom -> setHeight(setY(canvas, bottom(canvas)), dim)
            [] axis = xTop -> setHeight(setY(canvas, top(canvas) - dim), dim))

\* the legend part of activate: the legend's rectangle and what it leaves of
\* plotRect
activateLegend(ld, plot, plotRect, options) ==
    IF /\ "IgnoreLegend" \notin options
       /\ plot.legend.present /\ ~plot.legend.isEmpty
    THEN LET legend0 == layoutLegend(ld, options, plotRect)
         IN  [withLegend |-> TRUE, legend0 |-> legend0,
              rect1 |-> activateSubtractLegend(plotRect, legend0)]
    ELSE [withLegend |-> FALSE, legend0 |-> invalidateRect,
          rect1 |-> plotRect]

\* the end of activate: lg is the legend part, tl and ft the title and the
\* footer with what they leave of the rectangle, aligned the canvas and the
\* scale rectangles after alignScales
activateAligned(ld, lg, dims, tl, ft, canvas0, scale0, aligned) ==
    [layoutData |-> ld,
     titleRect |-> tl.label, footerRect |-> ft.label,
     legendRect |-> IF ~isEmpty(lg.legend0)
                    THEN alignLegend(ld, aligned.canvas, lg.legend0)
                    ELSE lg.legend0,
     scaleRect |-> aligned.scale, canvasRect |-> aligned.canvas,
     withLegend |-> lg.withLegend, legend0 |-> lg.legend0,
     rect1 |-> lg.rect1, dims |-> dims, rect3 |-> ft.rest,
     canvas0 |-> canvas0, scale0 |-> scale0]

activateScales(ld, options, lg, dims, tl, ft, canvas0, scale0) ==
    activateAligned(ld, lg, dims, tl, ft, canvas0, scale0,
                    alignScales(ld, options,
                                [canvas |-> canvas0, scale |-> scale0]))

activateCanvas(ld, options, lg, dims, tl, ft, canvas0) ==
    activateScales(ld, options, lg, dims, tl, ft, canvas0,
                   PerAxis(activateScaleRect(canvas0, dims.axis, yLeft),
                           activateScaleRect(canvas0, dims.axis, yRight),
                           activateScaleRect(canvas0, dims.axis, xBottom),
                           activateScaleRect(canvas0, dims.axis, xTop)))

activateLabelled(ld, options, lg, dims, tl, ft) ==
    activateCanvas(ld, options, lg, dims, tl, ft,
                   activateCanvasRect(ft.rest, dims.axis))

activateTitled(ld, options, lg, dims, tl) ==
    activateLabelled(ld, options, lg, dims, tl,
                     IF dims.footer > 0
                     THEN activateLabel(ld, tl.rest, dims.footer, dims.axis,
                                        FALSE)
                     ELSE [label |-> invalidateRect, rest |-> tl.rest])

activateExpanded(ld, options, lg, dims) ==
    activateTitled(ld, options, lg, dims,
                   IF dims.title > 0
                   THEN activateLabel(ld, lg.rect1, dims.title, dims.axis,
                                      TRUE)
                   ELSE [label |-> invalidateRect, rest |-> lg.rect1])

activateWithLegend(ld, options, lg) ==
    activateExpanded(ld, options, lg,
                     expandLineBreaks(ld, options, lg.rect1))

activateWithData(ld, plot, plotRect, options) ==
    activateWithLegend(ld, options,
                       activateLegend(ld, plot, plotRect, options))

\* everything activate( plot, plotRect, options ) computes, from the layout
\* data ld0 left by earlier calls
activateResult(ld0, plot, plotRect, options) ==
    activateWithData(LayoutDataInit(ld0, plot, plotRect), plot, plotRect,
                     options)

\* activate( plot, plotRect, options ), called with the plot of the layout
Activate(plotRect, options) ==
    \E res \in {activateResult(layoutData, plotWidget, plotRect, options)} :
        /\ layoutData' = res.layoutData
        /\ titleRect' = res.titleRect
        /\ footerRect' = res.footerRect
        /\ legendRect' = res.legendRect
        /\ scaleRect' = res.scaleRect
        /\ canvasRect' = res.canvasRect
        /\ last' = [op |-> "activate",
                    args |-> <<plotRect, options>>,
                    withLegend |-> res.withLegend, legend0 |-> res.legend0,
                    rect1 |-> res.rect1, dims |-> res.dims, rect3 |-> res.rect3,
                    canvas0 |-> res.canvas0, scale0 |-> res.scale0]
        /\ UNCHANGED <<cfgVars, plotWidget>>

\* the widgets of the plot change (not an operation of the layout)
ChangePlot(p) ==
    /\ plotWidget' = p
    /\ last' = Call("changePlot", <<>>)
    /\ UNCHANGED <<rectVars, layoutData, cfgVars>>

(***************************************************************************)
(* QwtPlotLayout::QwtPlotLayout()                                          *)
(***************************************************************************)
\* layoutData is not initialised by the constructor: its ints hold whatever
\* the allocation held; the QwtText and QSize members are default constructed
UninitScaleData(g) ==
    [isEnabled |-> g = 1,
     scaleWidget |-> [isEnabled |-> FALSE, startBorderDist |-> g,
                      endBorderDist |-> g, margin |-> g, hasTicks |-> FALSE,
                      maxTickLength |-> g, dim |-> g, title |-> NoText],
     start |-> g, end |-> g, baseLineOffset |-> g, tickOffset |-> g,
     dimWithoutTitle |-> g]

UninitLayoutData(g) ==
    [legend |-> [frameWidth |-> g, hScrollExtent |-> g, vScrollExtent |-> g,
                 hint |-> [w |-> -1, h |-> -1]],
     title |-> [text |-> NoText, frameWidth |-> g],
     footer |-> [text |-> NoText, frameWidth |-> g],
     scale |-> AllAxes(UninitScaleData(g)),
     canvas |-> [contentsMargins |-> AllAxes(g)]]

\* the values an uninitialised int is given in the model
Garbage == {0, 7}

\* PrivateData(): legendRatio( 1.0 ), spacing( 5 ); then
\* setLegendPosition( BottomLegend ), setCanvasMargin( 4 ),
\* setAlignCanvasToScales( false ), invalidate()
InitLayout ==
    /\ layoutData \in {UninitLayoutData(g) : g \in Garbage}
    /\ legendPos =
          setLegendPositionValue("BottomLegend", RatioOne, "BottomLegend", RatioZero).pos
    /\ legendRatio =
          setLegendPositionValue("BottomLegend", RatioOne, "BottomLegend", RatioZero).ratio
    /\ spacing = 5
    /\ canvasMargin = setCanvasMarginStore(AllAxes(U32(0)), 4, -1)
    /\ alignCanvasToScales = AllAxes(FALSE)
    /\ titleRect = invalidateRect
    /\ footerRect = invalidateRect
    /\ legendRect = invalidateRect
    /\ canvasRect = invalidateRect
    /\ scaleRect = AllAxes(invalidateRect)
    /\ last = Call("QwtPlotLayout", <<>>)

(***************************************************************************)
(* Plots and arguments the specifications draw from                        *)
(***************************************************************************)
Legend(p, e, fw, hs, vs, w, h, area) ==
    [present |-> p, isEmpty |-> e, frameWidth |-> fw, hScrollExtent |-> hs,
     vScrollExtent |-> vs, hintW |-> w, hintH |-> h, area |-> area]

NoLegend == Legend(FALSE, TRUE, 0, 0, 0, 0, 0, 0)

Label(p, text, font, fw) ==
    [present |-> p, text |-> text, font |-> font, frameWidth |-> fw]

NoLabel == Label(FALSE, NoText, 0, 0)

ScaleWidget(on, start, end, margin, ticks, maxTick, dim, title) ==
    [isEnabled |-> on, startBorderDist |-> start, endBorderDist |-> end,
     margin |-> margin, hasTicks |-> ticks, maxTickLength |-> maxTick,
     dim |-> dim, title |-> title]

NoScale == ScaleWidget(FALSE, 0, 0, 0, FALSE, 0, 0, NoText)

\* contentsMargins() and minimumSize() of the canvas (a QWidget has the
\* minimum size 0 x 0 unless one is set)
Canvas(l, t, r, b) ==
    [left |-> l, top |-> t, right |-> r, bottom |-> b,
     minimumSize |-> [w |-> 0, h |-> 0]]

Plot(legend, title, footer, axis, canvas) ==
    [legend |-> legend, title |-> title, footer |-> footer, axis |-> axis,
     canvas |-> canvas]

\* the plot rectangle of the specifications, in pixels
PlotW == 60
PlotH == 44

\* plot rectangles: on whole pixels, and off them by one sub-pixel step
PlotRectWhole == Rect(0, 0, P(PlotW), P(PlotH))
PlotRectFraction == Rect(1, P(2), P(PlotW) + 1, P(PlotH) - 1)

LegendSmall == Legend(TRUE, FALSE, 1, 3, 3, 8, 6, 0)
LegendFlow == Legend(TRUE, FALSE, 0, 2, 2, 30, 5, 300)

TitleLabel == Label(TRUE, Text(FALSE, FALSE, PlotW + 20, 5), 7, 1)
FooterLabel == Label(TRUE, Text(FALSE, TRUE, 20, 6), 9, 0)

ScalePlain == ScaleWidget(TRUE, 3, 2, 1, TRUE, 5, 5, NoText)
ScaleTitled == ScaleWidget(TRUE, 2, 6, 0, FALSE, 3, 4, Text(FALSE, FALSE, 10, 2))

AxesNone == PerAxis(NoScale, NoScale, NoScale, NoScale)
AxesLeftBottom == PerAxis(ScaleTitled, NoScale, ScalePlain, NoScale)
AxesAll == PerAxis(ScalePlain, ScaleTitled, ScaleTitled, ScalePlain)

\* the third is too small for what is to be laid out in it
PlotRects ==
    {PlotRectWhole, PlotRectFraction,
     Rect(0, 0, P(PlotW) \div 4, P(PlotH) \div 4)}

NoOptions == {}

(***************************************************************************)
(* Spec: the layout of a plot with a legend                                *)
(***************************************************************************)
Init ==
    /\ InitLayout
    /\ plotWidget \in
          {Plot(l, lb[1], lb[2], a, Canvas(1, 2, 1, 0)) :
              \* no legend, a small one, one larger than the plot, one that
              \* flows, and one with scroll bars larger than the plot
              l \in {NoLegend, LegendSmall,
                     Legend(TRUE, FALSE, 0, 4, 4, PlotW + 10, PlotH + 15, 0),
                     LegendFlow,
                     Legend(TRUE, FALSE, 0, PlotW + 5, PlotH + 5, 10,
                            PlotH + 10, 0)},
              lb \in {<<NoLabel, NoLabel>>, <<TitleLabel, NoLabel>>,
                      <<NoLabel, FooterLabel>>, <<TitleLabel, FooterLabel>>},
              a \in {AxesNone, AxesAll}}


Next ==
    \/ \E r \in PlotRects, o \in {NoOptions, {"IgnoreScrollbars"}} :
          Activate(r, o)
    \/ Invalidate
    \/ \E pos \in LegendPositions : SetLegendPosition1(pos)
    \/ \E q \in {Ratio(2, 5)} : SetLegendRatio(q)
    \/ \E sp \in {-1} : SetSpacing(sp)

Spec == Init /\ [][Next]_vars

(***************************************************************************)
(* SpecAlign: the alignment of canvas and scales, for a plot with no legend *)
(***************************************************************************)
\* an axis whose border distances exceed the canvas margin
ScaleWide == ScaleWidget(TRUE, 9, 10, 0, TRUE, 4, 6, NoText)

AxesWideLeft == PerAxis(ScaleWide, ScalePlain, ScalePlain, ScaleTitled)
AxesWide == PerAxis(ScaleWide, ScaleWide, ScaleWide, ScaleWide)

InitAlign ==
    /\ InitLayout
    /\ plotWidget \in
          {Plot(NoLegend, NoLabel, NoLabel, a, Canvas(1, 2, 1, 0)) :
              a \in {AxesLeftBottom, AxesAll,
                     PerAxis(ScalePlain, NoScale, ScaleWide, NoScale),
                     AxesWideLeft, AxesWide}}
          \cup {Plot(NoLegend, TitleLabel, FooterLabel, AxesWideLeft,
                     Canvas(0, 0, 0, 0))}


NextAlign ==
    \/ \E r \in PlotRects, o \in {NoOptions, {"IgnoreFrames"}} :
          Activate(r, o)
    \/ \E on \in BOOLEAN : SetAlignCanvasToScales(on)
    \/ \E a \in {xBottom, xTop}, on \in BOOLEAN :
          SetAlignCanvasToScale(a, on)
    \/ \E m \in {-3}, a \in {-1, xBottom} : SetCanvasMargin(m, a)

SpecAlign == InitAlign /\ [][NextAlign]_vars

(***************************************************************************)
(* SpecHistory: one layout used for changing plots, with rectangles set    *)
(* from outside and invalidated in between                                 *)
(***************************************************************************)
PlotBare == Plot(NoLegend, TitleLabel, NoLabel, AxesNone, Canvas(1, 2, 1, 0))
PlotFull == Plot(LegendSmall, TitleLabel, FooterLabel, AxesAll, Canvas(1, 2, 1, 0))


PlotsHistory ==
    {PlotBare, PlotFull,
     Plot(LegendFlow, NoLabel, NoLabel, AxesLeftBottom, Canvas(0, 0, 0, 0)),
     \* an empty legend, a footer and a right axis
     Plot(Legend(TRUE, TRUE, 1, 3, 3, 8, 6, 0), NoLabel, FooterLabel,
          PerAxis(NoScale, ScaleTitled, NoScale, NoScale), Canvas(0, 0, 0, 0))}

\* a rectangle set from outside
RectOutside == Rect(P(3), P(4), P(10), P(6))

InitHistory == InitLayout /\ plotWidget \in PlotsHistory


NextHistory ==
    \/ \E r \in {PlotRectWhole, PlotRectFraction}, o \in {NoOptions, {"IgnoreLegend"}} :
          Activate(r, o)
    \/ \E p \in PlotsHistory : ChangePlot(p)
    \/ Invalidate
    \/ SetTitleRect(RectOutside)
    \/ SetFooterRect(RectOutside)
    \/ SetLegendRect(RectOutside)
    \/ \E a \in {xBottom, axisCnt} : SetScaleRect(a, RectOutside)
    \/ SetCanvasRect(RectOutside)

SpecHistory == InitHistory /\ [][NextHistory]_vars

(***************************************************************************)
(* SpecMargin: the canvas margins                                          *)
(***************************************************************************)
InitMargin == InitLayout /\ plotWidget \in {PlotFull}


NextMargin ==
    \/ \E m \in {-3, -2, -1, 0, 2}, a \in -2 .. axisCnt :
          SetCanvasMargin(m, a)
    \/ Invalidate

SpecMargin == InitMargin /\ [][NextMargin]_vars

(***************************************************************************)
(* SpecConfig: the configuration setters with arguments in and out of      *)
(* range, on a plot without legend                                         *)
(***************************************************************************)
\* "OtherLegend" is a QwtPlot::LegendPosition that is none of the four
\* enumerators

InitConfig == InitLayout /\ plotWidget \in {PlotBare}


NextConfig ==
    \/ \E m \in {-3, 2}, a \in {-2, -1, yLeft, axisCnt} :
          SetCanvasMargin(m, a)
    \/ \E on \in BOOLEAN : SetAlignCanvasToScales(on)
    \/ \E a \in {-1, yRight, axisCnt}, on \in BOOLEAN :
          SetAlignCanvasToScale(a, on)
    \/ \E s \in {-2, 0, 3} : SetSpacing(s)
    \/ \E pos \in LegendPositions \cup {"OtherLegend"} :
          SetLegendPosition1(pos)
    \/ \E pos \in {"RightLegend", "OtherLegend"}, q \in {RatioZero, Ratio(3, 2)} :
          SetLegendPosition(pos, q)
    \/ \E q \in {Ratio(-1, 2), RatioZero, Ratio(1, 4), RatioOne, Ratio(3, 2),
                 RatioNaN} : SetLegendRatio(q)
    \/ Invalidate
    \/ Activate(PlotRectWhole, NoOptions)

SpecConfig == InitConfig /\ [][NextConfig]_vars

(***************************************************************************)
(* SpecRects: output rectangles set from outside between configuration     *)
(* changes, invalidate and activate                                        *)
(***************************************************************************)
InitRects == InitLayout /\ plotWidget \in {PlotFull}

NextRects ==
    \/ Activate(PlotRectWhole, NoOptions)
    \/ Invalidate
    \/ SetTitleRect(RectOutside)
    \/ SetFooterRect(RectOutside)
    \/ SetLegendRect(RectOutside)
    \/ \E a \in {xBottom, axisCnt} : SetScaleRect(a, RectOutside)
    \/ SetCanvasRect(RectOutside)
    \/ SetCanvasMargin(0, -1)
    \/ SetAlignCanvasToScales(TRUE)
    \/ SetAlignCanvasToScale(yLeft, FALSE)
    \/ SetSpacing(0)
    \/ SetLegendPosition1("LeftLegend")
    \/ SetLegendRatio(Ratio(1, 4))

SpecRects == InitRects /\ [][NextRects]_vars

(***************************************************************************)
(* SpecMinSize: minimumSizeHint between activate, invalidate and changes   *)
(* of the configuration                                                    *)
(***************************************************************************)
\* the last plot has a left axis whose labels need room below but none above
InitMinSize ==
    /\ InitLayout
    /\ plotWidget \in
          {PlotFull,
           Plot(LegendFlow, NoLabel, FooterLabel, AxesWide, Canvas(0, 0, 0, 0)),
           Plot(NoLegend, TitleLabel, NoLabel, AxesWideLeft, Canvas(1, 2, 1, 0)),
           Plot(LegendSmall, TitleLabel, NoLabel,
                PerAxis(ScaleWidget(TRUE, 9, 0, 1, TRUE, 4, 6, NoText), NoScale,
                        ScalePlain, ScaleWide),
                [Canvas(1, 2, 1, 0) EXCEPT !.minimumSize = [w |-> 40, h |-> 3]])}

NextMinSize ==
    \/ MinimumSizeHint(plotWidget)
    \/ Activate(PlotRectWhole, NoOptions)
    \/ Invalidate
    \/ \E m \in {-1, 9}, a \in {-1, xTop} : SetCanvasMargin(m, a)
    \/ \E pos \in {"LeftLegend", "TopLegend"} : SetLegendPosition1(pos)
    \/ SetSpacing(0)

SpecMinSize == InitMinSize /\ [][NextMinSize]_vars

(***************************************************************************)
(* SpecExpand: texts that need from one to many passes of expandLineBreaks *)
(***************************************************************************)


InitExpand ==
    /\ InitLayout
    /\ plotWidget \in
          {PlotBare, PlotFull,
           Plot(NoLegend, TitleLabel, FooterLabel, AxesLeftBottom,
                Canvas(1, 2, 1, 0)),
           \* a title that breaks once more when a vertical axis takes 5
           \* pixels of the width, over axes without titles
           Plot(NoLegend,
                Label(TRUE, Text(FALSE, FALSE, 2 * PlotW - 2, 5), 7, 1),
                FooterLabel,
                PerAxis(NoScale, ScalePlain, ScalePlain, NoScale),
                Canvas(1, 2, 1, 0)),
           \* a title and an axis title far too long for the plot rectangle
           Plot(NoLegend,
                Label(TRUE, Text(FALSE, TRUE, 4 * PlotW + 10, 4), 0, 0),
                NoLabel,
                PerAxis(ScaleWidget(TRUE, 2, 2, 0, FALSE, 0, 3,
                                    Text(FALSE, FALSE, 2 * PlotW + 30, 3)),
                        NoScale, NoScale, NoScale),
                Canvas(0, 0, 0, 0))}

NextExpand ==
    \/ \E r \in PlotRects,
          o \in {NoOptions, {"IgnoreFrames"}, {"IgnoreTitle", "IgnoreFooter"}} :
          Activate(r, o)
    \/ SetSpacing(0)
    \/ SetCanvasMargin(-1, -1)
    \/ \E on \in BOOLEAN : SetAlignCanvasToScales(on)

SpecExpand == InitExpand /\ [][NextExpand]_vars

(***************************************************************************)
(* Vocabulary of the properties                                            *)
(***************************************************************************)
\* the state is the one an activate call left
Activated == last.op = "activate"
ActPlotRect == last.args[1]
ActOptions == last.args[2]

\* the interiors of two rectangles meet (QRectF::intersects)
Intersects(a, b) ==
    LET na == normalized(a)
        nb == normalized(b)
    IN  /\ na.w # 0 /\ na.h # 0 /\ nb.w # 0 /\ nb.h # 0
        /\ left(na) < right(nb) /\ left(nb) < right(na)
        /\ top(na) < bottom(nb) /\ top(nb) < bottom(na)

\* the smaller extent of the rectangle two intersecting rectangles share
OverlapDepth(a, b) ==
    LET na == normalized(a)
        nb == normalized(b)
    IN  Min(Min(right(na), right(nb)) - Max(left(na), left(nb)),
            Min(bottom(na), bottom(nb)) - Max(top(na), top(nb)))

\* b lies in a
Contains(a, b) ==
    LET na == normalized(a)
        nb == normalized(b)
    IN  /\ left(na) <= left(nb) /\ right(nb) <= right(na)
        /\ top(na) <= top(nb) /\ bottom(nb) <= bottom(na)

\* all edges on whole pixels
OnWholePixels(r) ==
    r.x % Unit = 0 /\ r.y % Unit = 0 /\ r.w % Unit = 0 /\ r.h % Unit = 0

(***************************************************************************)
(* C1: activate is deterministic and independent of the history of the     *)
(* layout object: whatever was called before, the rectangles it leaves are *)
(* those that activate leaves on a freshly constructed layout with the     *)
(* same configuration, plot, plot rectangle and options.                   *)
(***************************************************************************)
C1_HistoryIndependent ==
    Activated =>
        LET fresh == activateResult(UninitLayoutData(0), plotWidget,
                                    ActPlotRect, ActOptions)
        IN  /\ titleRect = fresh.titleRect
            /\ footerRect = fresh.footerRect
            /\ legendRect = fresh.legendRect
            /\ scaleRect = fresh.scaleRect
            /\ canvasRect = fresh.canvasRect

\* activate on a plot with no legend and no axes, on a layout that still
\* holds the legend and scale data of an earlier plot
C1_Witness ==
    /\ Activated
    /\ plotWidget = PlotBare
    /\ layoutData.legend.hint.w > 0
    /\ layoutData.scale[xBottom].scaleWidget.isEnabled
    /\ isValid(canvasRect) /\ isValid(titleRect)

(***************************************************************************)
(* C2: after every activate the canvas rectangle does not intersect the    *)
(* title, footer or legend rectangle, whatever the plot rectangle, the     *)
(* configuration and the size hints are.                                   *)
(***************************************************************************)
C2_NonOverlapAlways ==
    Activated =>
        /\ ~Intersects(canvasRect, titleRect)
        /\ ~Intersects(canvasRect, footerRect)
        /\ ~Intersects(canvasRect, legendRect)

\* C2 as amended: after an activate that leaves a valid canvas rectangle, the
\* canvas does not intersect the title or the footer; it does not intersect
\* the legend when the plot rectangle lies on whole pixels, and otherwise
\* shares at most half a pixel with it.
C2_NonOverlapValidCanvas ==
    Activated /\ isValid(canvasRect) =>
        /\ ~Intersects(canvasRect, titleRect)
        /\ ~Intersects(canvasRect, footerRect)
        /\ OnWholePixels(ActPlotRect) => ~Intersects(canvasRect, legendRect)
        /\ Intersects(canvasRect, legendRect) =>
              2 * OverlapDepth(canvasRect, legendRect) <= Unit

C2_Witness ==
    /\ Activated
    /\ isValid(canvasRect) /\ isValid(titleRect) /\ isValid(footerRect)
    /\ isValid(legendRect)
    /\ \E a \in Axes : isValid(scaleRect[a])

(***************************************************************************)
(* C3: after every activate each non-empty scale rectangle touches the     *)
(* canvas rectangle on its own side, also when the alignment has moved     *)
(* edges of the canvas.                                                    *)
(***************************************************************************)
C3_Adjacency ==
    Activated =>
        /\ ~isEmpty(scaleRect[yLeft]) => right(scaleRect[yLeft]) = left(canvasRect)
        /\ ~isEmpty(scaleRect[yRight]) => left(scaleRect[yRight]) = right(canvasRect)
        /\ ~isEmpty(scaleRect[xTop]) => bottom(scaleRect[xTop]) = top(canvasRect)
        /\ ~isEmpty(scaleRect[xBottom]) =>
              top(scaleRect[xBottom]) = bottom(canvasRect)

\* the alignment has moved the canvas on every side and all axes are there
C3_Witness ==
    /\ Activated
    /\ \A a \in Axes : ~isEmpty(scaleRect[a])
    /\ left(canvasRect) # left(last.canvas0)
    /\ right(canvasRect) # right(last.canvas0)
    /\ top(canvasRect) # top(last.canvas0)
    /\ bottom(canvasRect) # bottom(last.canvas0)

(***************************************************************************)
(* C4: after every activate that places a legend, the legend rectangle     *)
(* lies in the plot rectangle.                                             *)
(***************************************************************************)
C4_LegendInPlotRect ==
    Activated /\ last.withLegend => Contains(ActPlotRect, legendRect)

(***************************************************************************)
(* C5: with the legend at the left or right and a width hint of more than  *)
(* legendRatio x the width of the plot rectangle, the legend rectangle is  *)
(* at most legendRatio x that width wide, plus the horizontal scroll       *)
(* extent when the hint is higher than the plot rectangle and scroll bars  *)
(* are not ignored.                                                        *)
(***************************************************************************)
C5_LegendRatioCap ==
    LET scroll == /\ "IgnoreScrollbars" \notin ActOptions
                  /\ P(layoutData.legend.hint.h) > ActPlotRect.h
    IN  /\ Activated /\ last.withLegend
        /\ legendPos \in {"LeftLegend", "RightLegend"}
        /\ P(plotWidget.legend.hintW) * legendRatio.den
              > legendRatio.num * ActPlotRect.w
        => legendRect.w * legendRatio.den
              <= legendRatio.num * ActPlotRect.w
                   + (IF scroll
                      THEN P(layoutData.legend.hScrollExtent) * legendRatio.den
                      ELSE 0)

C5_Witness ==
    /\ Activated /\ last.withLegend
    /\ legendPos = "RightLegend"
    /\ legendRatio = Ratio(2, 5)
    /\ P(plotWidget.legend.hintW) * legendRatio.den
          > legendRatio.num * ActPlotRect.w
    /\ isValid(legendRect) /\ isValid(canvasRect)
    /\ legendRect.w * legendRatio.den > legendRatio.num * ActPlotRect.w

(***************************************************************************)
(* C6: after invalidate, in any state, the title, footer, legend and       *)
(* canvas rectangles and the four scale rectangles are empty and invalid.  *)
(***************************************************************************)
C6_InvalidateEmpties ==
    last.op = "invalidate" =>
        /\ \A r \in {titleRect, footerRect, legendRect, canvasRect} :
              isEmpty(r) /\ ~isValid(r)
        /\ \A a \in Axes : isEmpty(scaleRect[a]) /\ ~isValid(scaleRect[a])

C6_Witness == last.op = "invalidate" /\ last.hadRect

(***************************************************************************)
(* C7: after activate with no options, no legend and all axes disabled,    *)
(* all scale rectangles are empty, the canvas has the left and right of    *)
(* the plot rectangle, its top is the bottom of the title rectangle and    *)
(* its bottom the top of the footer rectangle.                             *)
(***************************************************************************)
BarePlotActivated ==
    /\ Activated
    /\ ActOptions = NoOptions
    /\ ~plotWidget.legend.present
    /\ \A a \in Axes : ~plotWidget.axis[a].isEnabled

C7_CanvasBetweenBands ==
    BarePlotActivated =>
        /\ \A a \in Axes : isEmpty(scaleRect[a])
        /\ top(canvasRect) = bottom(titleRect)
        /\ bottom(canvasRect) = top(footerRect)
        /\ left(canvasRect) = left(ActPlotRect)
        /\ right(canvasRect) = right(ActPlotRect)

\* C7 as amended: all scale rectangles are empty, the canvas has the left and
\* right of the plot rectangle; a title of positive height lies at the top of
\* the plot rectangle over its whole width and the canvas begins the spacing
\* below it, with no such title the canvas begins at the top of the plot
\* rectangle; the same holds of the footer at the bottom.
C7_CanvasBetweenBandsAndSpacing ==
    BarePlotActivated =>
        /\ \A a \in Axes : isEmpty(scaleRect[a])
        /\ left(canvasRect) = left(ActPlotRect)
        /\ right(canvasRect) = right(ActPlotRect)
        /\ IF last.dims.title > 0
           THEN /\ titleRect = Rect(left(ActPlotRect), top(ActPlotRect),
                                    ActPlotRect.w, P(last.dims.title))
                /\ top(canvasRect) = bottom(titleRect) + P(spacing)
           ELSE /\ isEmpty(titleRect)
                /\ top(canvasRect) = top(ActPlotRect)
        /\ IF last.dims.footer > 0
           THEN /\ footerRect.h = P(last.dims.footer)
                /\ bottom(footerRect) = bottom(ActPlotRect)
                /\ left(footerRect) = left(ActPlotRect)
                /\ footerRect.w = ActPlotRect.w
                /\ bottom(canvasRect) = top(footerRect) - P(spacing)
           ELSE /\ isEmpty(footerRect)
                /\ bottom(canvasRect) = bottom(ActPlotRect)

C7_Witness ==
    /\ BarePlotActivated
    /\ isValid(titleRect) /\ isValid(footerRect) /\ isValid(canvasRect)
    /\ spacing = 5
    /\ top(ActPlotRect) # 0

(***************************************************************************)
(* C8: with title and footer empty, no legend and only the left and the    *)
(* bottom axis enabled, with resolved dimensions dL and dB, activate on    *)
(* the plot rectangle (x, y, w, h) makes the canvas (x + dL, y, w - dL,    *)
(* h - dB) before the alignment, and the alignment changes it only by      *)
(* border distance adjustments: an edge moves only if the canvas is        *)
(* aligned to the scales on that side, only inwards, and by no more than   *)
(* the border distance of the axis that ends there.                        *)
(***************************************************************************)
LeftBottomPlotActivated ==
    /\ Activated
    /\ ~plotWidget.legend.present
    /\ plotWidget.title.text.isEmpty /\ plotWidget.footer.text.isEmpty
    /\ \A a \in Axes : plotWidget.axis[a].isEnabled <=> a \in {yLeft, xBottom}

C8_LeftBottomCanvas ==
    LeftBottomPlotActivated =>
        LET dL == last.dims.axis[yLeft]
            dB == last.dims.axis[xBottom]
            c0 == last.canvas0
            sdL == layoutData.scale[yLeft]
            sdB == layoutData.scale[xBottom]
        IN  /\ dL >= plotWidget.axis[yLeft].dim
            /\ dB >= plotWidget.axis[xBottom].dim
            /\ plotWidget.axis[yLeft].title.isEmpty => dL = plotWidget.axis[yLeft].dim
            /\ plotWidget.axis[xBottom].title.isEmpty =>
                  dB = plotWidget.axis[xBottom].dim
            /\ c0 = Rect(ActPlotRect.x + P(dL), ActPlotRect.y,
                         ActPlotRect.w - P(dL), ActPlotRect.h - P(dB))
            /\ left(canvasRect) - left(c0) \in 0 .. P(sdB.start)
            /\ right(c0) - right(canvasRect) \in 0 .. P(sdB.end)
            /\ top(canvasRect) - top(c0) \in 0 .. P(sdL.start)
            /\ bottom(c0) - bottom(canvasRect) \in 0 .. P(sdL.end)
            /\ left(canvasRect) # left(c0) => alignCanvasToScale(yLeft)
            /\ right(canvasRect) # right(c0) => alignCanvasToScale(yRight)
            /\ top(canvasRect) # top(c0) => alignCanvasToScale(xTop)
            /\ bottom(canvasRect) # bottom(c0) => alignCanvasToScale(xBottom)

\* the alignment has moved the left edge of a canvas off the whole pixels
C8_Witness ==
    /\ LeftBottomPlotActivated
    /\ isValid(canvasRect)
    /\ ~OnWholePixels(ActPlotRect)
    /\ left(canvasRect) > left(last.canvas0)
    /\ bottom(canvasRect) = bottom(last.canvas0)

(***************************************************************************)
(* C9: when the canvas is aligned to the bottom scale and the border       *)
(* distances of the bottom axis exceed its canvas margin, the alignment    *)
(* moves the bottom edge of the canvas.                                    *)
(***************************************************************************)
C9_BottomAxisMovesCanvas ==
    /\ Activated
    /\ alignCanvasToScale(xBottom)
    /\ isValid(last.scale0[xBottom])
    /\ layoutData.scale[xBottom].start > canvasMarginGet(xBottom)
    /\ layoutData.scale[xBottom].end > canvasMarginGet(xBottom)
    => bottom(canvasRect) < bottom(last.canvas0)

\* the vertical axis a needs more room at its lower end than the bottom scale
\* (or, with no bottom scale, the frame of the canvas) gives it
NeedsRoomBelow(a) ==
    LET bo == IF "IgnoreFrames" \notin ActOptions
              THEN layoutData.canvas.contentsMargins[xBottom] ELSE 0
        off == bo - layoutData.scale[a].end + 1
    IN  /\ isValid(last.scale0[a])
        /\ IF isValid(last.scale0[xBottom])
           THEN P(off) + last.scale0[xBottom].h < 0
           ELSE off < 0

\* C9 as amended: the alignment never moves the bottom edge of the canvas
\* down, and it moves it up exactly when the canvas is aligned to the bottom
\* scale and the end border distance of a vertical axis exceeds the bottom
\* frame margin of the canvas plus one plus the height of the bottom scale;
\* the border distances of the bottom axis and the canvas margin play no part.
C9_VerticalAxisMovesCanvas ==
    Activated /\ isValid(last.canvas0) =>
        /\ bottom(canvasRect) <= bottom(last.canvas0)
        /\ bottom(canvasRect) < bottom(last.canvas0) <=>
              /\ alignCanvasToScale(xBottom)
              /\ \E a \in {yLeft, yRight} : NeedsRoomBelow(a)

C9_Witness ==
    /\ Activated /\ isValid(last.canvas0)
    /\ alignCanvasToScale(xBottom)
    /\ isValid(scaleRect[xBottom])
    /\ bottom(canvasRect) < bottom(last.canvas0)
    /\ canvasMarginGet(xBottom) = -1

(***************************************************************************)
(* C10: setCanvasMargin( m, axis ) with m < -1: with axis -1 canvasMargin  *)
(* reads -1 for all four axes; with one of the four axes canvasMargin      *)
(* reads -1 for it and what it read before for the three others.           *)
(***************************************************************************)
C10_NegativeMarginStep ==
    (last'.op = "setCanvasMargin" /\ last'.args[1] < -1) =>
        /\ last'.args[2] = -1 =>
              \A a \in Axes : canvasMarginOf(canvasMargin', a) = -1
        /\ last'.args[2] \in Axes =>
              /\ canvasMarginOf(canvasMargin', last'.args[2]) = -1
              /\ \A b \in Axes \ {last'.args[2]} :
                    canvasMarginOf(canvasMargin', b) = canvasMarginGet(b)

C10_NegativeMargin == [][C10_NegativeMarginStep]_vars

\* a margin below -1 was set for one axis while others hold other margins
C10_Witness ==
    /\ last.op = "setCanvasMargin" /\ last.args[1] = -3 /\ last.args[2] = xBottom
    /\ canvasMarginGet(xBottom) = -1
    /\ canvasMarginGet(yLeft) = 2
    /\ canvasMarginGet(xTop) = 4
    /\ canvasMarginGet(yRight) = 0

(***************************************************************************)
(* C11: setLegendRatio( r ) followed by legendRatio() returns r for r in   *)
(* (0,1], the default of the current legend position for r <= 0 (0.33 for  *)
(* Top/Bottom, 0.5 for Left/Right) and 1.0 for r > 1; the legend position  *)
(* stays as it was in every case.                                          *)
(***************************************************************************)
\* legendRatio() and legendPosition() return the stored fields
DefaultRatio(pos) ==
    IF pos \in {"TopLegend", "BottomLegend"} THEN RatioTopBottom ELSE RatioLeftRight

InUnitInterval(q) == RatioLess(RatioZero, q) /\ RatioLeq(q, RatioOne)

C11_LegendRatioStep ==
    last'.op = "setLegendRatio" =>
        /\ legendPos' = legendPos
        /\ InUnitInterval(last'.args[1]) => legendRatio' = last'.args[1]
        /\ RatioLeq(last'.args[1], RatioZero) =>
              legendRatio' = DefaultRatio(legendPos)
        /\ RatioLess(RatioOne, last'.args[1]) => legendRatio' = RatioOne

C11_LegendRatioRoundTrip == [][C11_LegendRatioStep]_vars

\* a ratio above 1 was given for a legend at the left and 1.0 is read back
C11_Witness ==
    /\ last.op = "setLegendRatio"
    /\ RatioLess(RatioOne, last.args[1])
    /\ legendPos = "LeftLegend"
    /\ legendRatio = RatioOne

(***************************************************************************)
(* C12: for an axis index outside the four axes canvasMargin( axis ) is 0  *)
(* and alignCanvasToScale( axis ) is false, and setCanvasMargin( m, axis ) *)
(* and setAlignCanvasToScale( axis, on ) change no stored margin and no    *)
(* stored flag.                                                            *)
(***************************************************************************)
OutsideAxes == {-2, -1, axisCnt, axisCnt + 1}

AccessorsNeutralOutside ==
    \A a \in OutsideAxes : canvasMarginGet(a) = 0 /\ ~alignCanvasToScale(a)

\* the claim as it is written: every index outside the axes, -1 included
C12_OutsideAxesStep ==
    /\ AccessorsNeutralOutside
    /\ (last'.op = "setCanvasMargin" /\ last'.args[2] \notin Axes) =>
          UNCHANGED <<canvasMargin, alignCanvasToScales>>
    /\ (last'.op = "setAlignCanvasToScale" /\ last'.args[1] \notin Axes) =>
          UNCHANGED <<canvasMargin, alignCanvasToScales>>

C12_OutsideAxesNoOp == [][C12_OutsideAxesStep]_vars

\* -1 is the index setCanvasMargin takes for all four axes
C12_OutsideAxesExceptAllStep ==
    /\ AccessorsNeutralOutside
    /\ (last'.op = "setCanvasMargin" /\ last'.args[2] \notin Axes \cup {-1}) =>
          UNCHANGED <<canvasMargin, alignCanvasToScales>>
    /\ (last'.op = "setCanvasMargin" /\ last'.args[2] = -1) =>
          /\ canvasMargin' = AllAxes(setCanvasMarginValue(last'.args[1]))
          /\ UNCHANGED alignCanvasToScales
    /\ (last'.op = "setAlignCanvasToScale" /\ last'.args[1] \notin Axes) =>
          UNCHANGED <<canvasMargin, alignCanvasToScales>>

C12_OutsideAxesExceptAll == [][C12_OutsideAxesExceptAllStep]_vars

\* a margin was set for the index axisCnt while margins and flags differ from
\* the ones of the constructor
C12_Witness ==
    /\ last.op = "setCanvasMargin"
    /\ last.args[2] = axisCnt
    /\ canvasMarginGet(yLeft) = 2
    /\ alignCanvasToScale(yRight)

(***************************************************************************)
(* C13: from construction on and after any sequence of setCanvasMargin,    *)
(* setAlignCanvasToScale(s), setSpacing, setLegendPosition, setLegendRatio,*)
(* invalidate and activate calls, canvasMargin( a ) >= -1 for every axis,  *)
(* spacing() >= 0, legendRatio() is in (0,1] and legendPosition() is one   *)
(* of Left, Right, Top, Bottom.                                            *)
(***************************************************************************)
C13_ConfigInvariant ==
    /\ \A a \in Axes : canvasMarginGet(a) >= -1
    /\ spacing >= 0
    /\ InUnitInterval(legendRatio)
    /\ legendPos \in LegendPositions

\* what holds also when the ratio given is not a number
C13_ConfigInvariantButRatio ==
    /\ \A a \in Axes : canvasMarginGet(a) >= -1
    /\ spacing >= 0
    /\ InUnitInterval(legendRatio) \/ legendRatio = RatioNaN
    /\ legendPos \in LegendPositions

(***************************************************************************)
(* C14: every configuration setter leaves all output rectangles unchanged; *)
(* setTitleRect, setFooterRect, setLegendRect, setCanvasRect and           *)
(* setScaleRect( axis ) change only the rectangle they name, which then    *)
(* reads back as it was set; only invalidate and activate change the       *)
(* others.                                                                 *)
(***************************************************************************)
ConfigSetters ==
    {"setCanvasMargin", "setAlignCanvasToScales", "setAlignCanvasToScale",
     "setSpacing", "setLegendPosition", "setLegendRatio"}

\* scaleRect( axis ): a default constructed QRectF for an index out of range
scaleRectGet(sr, axis) ==
    IF axis < 0 \/ axis >= axisCnt THEN NullRect ELSE sr[axis]

C14_RectsPersistStep ==
    /\ last'.op \in ConfigSetters => UNCHANGED rectVars
    /\ last'.op = "setTitleRect" =>
          /\ titleRect' = last'.args[1]
          /\ UNCHANGED <<footerRect, legendRect, scaleRect, canvasRect>>
    /\ last'.op = "setFooterRect" =>
          /\ footerRect' = last'.args[1]
          /\ UNCHANGED <<titleRect, legendRect, scaleRect, canvasRect>>
    /\ last'.op = "setLegendRect" =>
          /\ legendRect' = last'.args[1]
          /\ UNCHANGED <<titleRect, footerRect, scaleRect, canvasRect>>
    /\ last'.op = "setCanvasRect" =>
          /\ canvasRect' = last'.args[1]
          /\ UNCHANGED <<titleRect, footerRect, legendRect, scaleRect>>
    /\ last'.op = "setScaleRect" =>
          /\ last'.args[1] \in Axes =>
                scaleRectGet(scaleRect', last'.args[1]) = last'.args[2]
          /\ \A a \in Axes \ {last'.args[1]} : scaleRect'[a] = scaleRect[a]
          /\ UNCHANGED <<titleRect, footerRect, legendRect, canvasRect>>
    /\ ~UNCHANGED rectVars =>
          last'.op \in {"invalidate", "activate", "setTitleRect", "setFooterRect",
                        "setLegendRect", "setCanvasRect", "setScaleRect"}

C14_RectsPersist == [][C14_RectsPersistStep]_vars

\* the rectangle of the bottom axis was set while the title keeps what was
\* set earlier, the canvas what activate gave it, and the configuration
\* has changed since
C14_Witness ==
    /\ last.op = "setScaleRect"
    /\ last.args[1] = xBottom
    /\ scaleRect[xBottom] = RectOutside
    /\ titleRect = RectOutside
    /\ isValid(canvasRect) /\ canvasRect # RectOutside
    /\ isValid(scaleRect[yLeft])
    /\ spacing = 0

(***************************************************************************)
(* C15: activate and invalidate leave the configuration (canvas margins,   *)
(* align flags, spacing, legend position and ratio) unchanged, and         *)
(* minimumSizeHint leaves the configuration and every output rectangle     *)
(* unchanged.                                                              *)
(***************************************************************************)
C15_FrameStep ==
    /\ last'.op \in {"activate", "invalidate"} => UNCHANGED cfgVars
    /\ last'.op = "minimumSizeHint" => UNCHANGED <<cfgVars, rectVars>>

C15_Frame == [][C15_FrameStep]_vars

\* minimumSizeHint was called on a layout that holds the rectangles of an
\* activate and a configuration other than the constructor's
C15_Witness ==
    /\ last.op = "minimumSizeHint"
    /\ isValid(canvasRect) /\ isValid(titleRect)
    /\ canvasMarginGet(xTop) = 9
    /\ spacing = 0
    /\ legendPos = "LeftLegend"

(***************************************************************************)
(* C16: the loop of expandLineBreaks terminates: from pass to pass         *)
(* dimTitle, dimFooter and every dimAxis[axis] never decrease, and the     *)
(* loop ends with the first pass in which none of them grows.              *)
(***************************************************************************)
\* the while loop seen pass by pass: dims as they are before the first pass
\* and after every pass, up to the pass that changes nothing
RECURSIVE expandTrace(_, _, _, _)
expandTrace(ld, options, rect, dims) ==
    LET next == expandPass(ld, options, rect, dims)
        done == /\ next.title = dims.title
                /\ next.footer = dims.footer
                /\ next.axis = dims.axis
    IN  IF done THEN <<dims, next>>
        ELSE <<dims>> \o expandTrace(ld, options, rect, next)

DimsLeq(a, b) ==
    /\ a.title <= b.title
    /\ a.footer <= b.footer
    /\ \A axis \in Axes : a.axis[axis] <= b.axis[axis]

DimsSame(a, b) ==
    a.title = b.title /\ a.footer = b.footer /\ a.axis = b.axis

NoDims == [title |-> 0, footer |-> 0, axis |-> AllAxes(0), passes |-> 0]

\* the passes of the expandLineBreaks call of the last activate
ActTrace == expandTrace(layoutData, ActOptions, last.rect1, NoDims)

C16_ExpandMonotone ==
    Activated =>
        \E tr \in {ActTrace} :
            /\ \A i \in 1 .. (Len(tr) - 1) : DimsLeq(tr[i], tr[i + 1])
            /\ \A i \in 1 .. (Len(tr) - 2) : ~DimsSame(tr[i], tr[i + 1])
            /\ DimsSame(tr[Len(tr) - 1], tr[Len(tr)])
            /\ last.dims = tr[Len(tr)]
            /\ last.dims.passes = Len(tr) - 1

\* the loop went through several passes in which title and axis grew
C16_Witness ==
    /\ Activated
    /\ last.dims.passes >= 4
    /\ last.dims.title > 0
    /\ last.dims.axis[yLeft] > layoutData.scale[yLeft].dimWithoutTitle

(***************************************************************************)
(* C17: the loop of expandLineBreaks reaches its fixed point within axis   *)
(* count + 2 (= 6) passes for every input, so that a ceiling of 6 passes   *)
(* never changes the title, footer and axis dimensions it ends with.       *)
(***************************************************************************)
\* the while loop with a ceiling of axisCnt + 2 passes
RECURSIVE expandLoopCeiling(_, _, _, _)
expandLoopCeiling(ld, options, rect, dims) ==
    LET next == expandPass(ld, options, rect, dims)
        done == /\ next.title = dims.title
                /\ next.footer = dims.footer
                /\ next.axis = dims.axis
    IN  IF done \/ next.passes >= axisCnt + 2 THEN next
        ELSE expandLoopCeiling(ld, options, rect, next)

AxisTitled(ld) ==
    \E axis \in Axes :
        ld.scale[axis].isEnabled /\ ~ld.scale[axis].scaleWidget.title.isEmpty

C17_SeventhPass ==
    /\ Activated
    /\ last.dims.passes > axisCnt + 2

(***************************************************************************)
(* C18: when exactly one of the left and right axes is enabled, activate   *)
(* gives a title (footer) of non-zero height the left edge and the width   *)
(* of the canvas rectangle computed before the alignment; when both or     *)
(* neither are enabled it spans the width of the working rectangle.  The   *)
(* title sits at the top and the footer at the bottom of the working       *)
(* rectangle, which is shrunk by the height of the band plus one spacing.  *)
(***************************************************************************)
OneSided ==
    layoutData.scale[yLeft].isEnabled # layoutData.scale[yRight].isEnabled

\* what a band of height dim takes from the working rectangle
BandTaken(dim) == IF dim > 0 THEN P(dim) + P(spacing) ELSE 0

\* the band has the extent claimed along x; work is the working rectangle
BandAcross(band, work) ==
    IF OneSided
    THEN left(band) = left(last.canvas0) /\ band.w = last.canvas0.w
    ELSE left(band) = left(work) /\ band.w = work.w

C18_TitleFooterBands ==
    Activated =>
        \E work \in {last.rect1} :
            /\ last.dims.title > 0 =>
                  /\ top(titleRect) = top(work)
                  /\ titleRect.h = P(last.dims.title)
                  /\ BandAcross(titleRect, work)
            /\ last.dims.footer > 0 =>
                  /\ bottom(footerRect) = bottom(work)
                  /\ footerRect.h = P(last.dims.footer)
                  /\ BandAcross(footerRect, work)
            /\ left(last.rect3) = left(work)
            /\ right(last.rect3) = right(work)
            /\ top(last.rect3) = top(work) + BandTaken(last.dims.title)
            /\ bottom(last.rect3) = bottom(work) - BandTaken(last.dims.footer)

\* title and footer over the canvas of a plot with a right axis only, which
\* is narrower than the working rectangle
C18_Witness ==
    /\ Activated
    /\ OneSided /\ layoutData.scale[yRight].isEnabled
    /\ last.dims.title > 0 /\ last.dims.footer > 0
    /\ spacing > 0
    /\ isValid(last.canvas0)
    /\ right(titleRect) < right(last.rect1)
    /\ footerRect.w < last.rect1.w

(***************************************************************************)
(* C19: layoutLegend for a legend at the top or bottom returns a rectangle *)
(* with the left edge and width of rect and the height                     *)
(* max(min(height hint, floor(rect.height x legendRatio)), vertical scroll *)
(* extent), its top edge on rect.top for Top and its bottom edge on        *)
(* rect.bottom for Bottom; for Left and Right the rectangle keeps the top  *)
(* and height of rect and is anchored to rect.left and rect.right.         *)
(***************************************************************************)
\* floor(v x q) in whole pixels, for a length v of a plot rectangle and a
\* ratio q in (0, 1]: the largest n with n <= v x q
FloorTimes(v, q) ==
    CHOOSE n \in 0 .. (PlotH + PlotW) :
        /\ n * Unit * q.den <= v * q.num
        /\ (n + 1) * Unit * q.den > v * q.num

C19_LayoutLegend ==
    Activated /\ last.withLegend =>
        \E rect \in {ActPlotRect}, lg \in {last.legend0} :
            IF legendPos \in {"TopLegend", "BottomLegend"}
            THEN /\ left(lg) = left(rect) /\ lg.w = rect.w
                 /\ lg.h = P(Max(Min(layoutData.legend.hint.h,
                                     FloorTimes(rect.h, legendRatio)),
                                 layoutData.legend.vScrollExtent))
                 /\ legendPos = "TopLegend" => top(lg) = top(rect)
                 /\ legendPos = "BottomLegend" => bottom(lg) = bottom(rect)
            ELSE /\ top(lg) = top(rect) /\ lg.h = rect.h
                 /\ legendPos = "LeftLegend" => left(lg) = left(rect)
                 /\ legendPos = "RightLegend" => right(lg) = right(rect)

\* a legend at the bottom whose height is cut to the ratio: the hint is
\* higher than the share, the share higher than the scroll extent
C19_Witness ==
    /\ Activated /\ last.withLegend
    /\ legendPos = "BottomLegend"
    /\ layoutData.legend.hint.h > FloorTimes(ActPlotRect.h, legendRatio)
    /\ FloorTimes(ActPlotRect.h, legendRatio) > layoutData.legend.vScrollExtent
    /\ top(last.legend0) > top(ActPlotRect)
    /\ last.legend0.h < ActPlotRect.h

(***************************************************************************)
(* C20: in minimumSizeHint the corner-sharing correction only ever shrinks *)
(* an axis.  The width of a horizontal axis is reduced by min( width of    *)
(* the vertical axis, its border distance on that side minus the canvas    *)
(* border allowance ) for each present Left/Right axis whose side has a    *)
(* positive excess; the height of a vertical axis is reduced by min( tick  *)
(* offset of the horizontal axis, the border distance of the vertical axis *)
(* at that end minus the canvas border allowance ) for each present        *)
(* Bottom/Top axis, only when that same excess is positive.  A corrected   *)
(* extent is never larger than the minimum size hint of the axis.          *)
(***************************************************************************)
\* the correction as the claim words it: the lower end of a vertical axis is
\* its start (minLeft), the upper end its end (minRight)
C20_CorrectedAsClaimed(sd, cb, axis) ==
    IF sd[axis].w # 0 /\ (axis = xBottom \/ axis = xTop)
    THEN [sd[axis] EXCEPT !.w = sd[axis].w
            - (IF sd[axis].minLeft > cb[yLeft] /\ sd[yLeft].w # 0
               THEN Min(sd[axis].minLeft - cb[yLeft], sd[yLeft].w) ELSE 0)
            - (IF sd[axis].minRight > cb[yRight] /\ sd[yRight].w # 0
               THEN Min(sd[axis].minRight - cb[yRight], sd[yRight].w) ELSE 0)]
    ELSE IF sd[axis].h # 0 /\ (axis = yLeft \/ axis = yRight)
    THEN [sd[axis] EXCEPT !.h = sd[axis].h
            - (IF sd[axis].minLeft > cb[xBottom] /\ sd[xBottom].h # 0
               THEN Min(sd[axis].minLeft - cb[xBottom], sd[xBottom].tickOffset)
               ELSE 0)
            - (IF sd[axis].minRight > cb[xTop] /\ sd[xTop].h # 0
               THEN Min(sd[axis].minRight - cb[xTop], sd[xTop].tickOffset)
               ELSE 0)]
    ELSE sd[axis]

C20_CornerSharingShrinks ==
    last.op = "minimumSizeHint" =>
        \A axis \in Axes :
            /\ last.corrected[axis] =
                  C20_CorrectedAsClaimed(last.hint,
                      [a \in Axes |-> minCanvasBorder(plotWidget, a)], axis)
            /\ last.corrected[axis].w <= last.hint[axis].w
            /\ last.corrected[axis].h <= last.hint[axis].h

\* what the code does for the upper end: the test is on the start distance,
\* the reduction is taken from the end distance
C20_CornerSharingAsCoded ==
    last.op = "minimumSizeHint" =>
        /\ \A axis \in {xBottom, xTop} :
              /\ last.corrected[axis] =
                    C20_CorrectedAsClaimed(last.hint,
                        [a \in Axes |-> minCanvasBorder(plotWidget, a)], axis)
              /\ last.corrected[axis].w <= last.hint[axis].w
        /\ \A axis \in {yLeft, yRight} :
              (last.hint[axis].minLeft <= minCanvasBorder(plotWidget, xTop)
                  <=> last.hint[axis].minRight <= minCanvasBorder(plotWidget, xTop))
              => /\ last.corrected[axis] =
                       C20_CorrectedAsClaimed(last.hint,
                           [a \in Axes |-> minCanvasBorder(plotWidget, a)], axis)
                 /\ last.corrected[axis].h <= last.hint[axis].h

\* the left axis came out higher than its minimum size hint
C20_GrownAxis ==
    /\ last.op = "minimumSizeHint"
    /\ last.corrected[yLeft].h > last.hint[yLeft].h

(***************************************************************************)
(* C21: the alignment (alignScales) never moves an edge of the canvas      *)
(* outward: left and top never decrease, right and bottom never increase;  *)
(* and it leaves the canvas rectangle unchanged when alignCanvasToScale is *)
(* false for all four edges, whatever the border distances, margins and    *)
(* scale rectangles are.                                                   *)
(***************************************************************************)
C21_AlignNeverOutward ==
    Activated =>
        /\ left(canvasRect) >= left(last.canvas0)
        /\ top(canvasRect) >= top(last.canvas0)
        /\ right(canvasRect) <= right(last.canvas0)
        /\ bottom(canvasRect) <= bottom(last.canvas0)
        /\ (\A a \in Axes : ~alignCanvasToScale(a)) =>
              canvasRect = last.canvas0

\* the alignment has moved an edge inward in one activation ...
C21_Witness ==
    /\ Activated
    /\ isValid(last.canvas0)
    /\ \E a \in Axes : alignCanvasToScale(a)
    /\ left(canvasRect) > left(last.canvas0)
    /\ \E a \in Axes : isValid(scaleRect[a])

\* ... and left the canvas alone with no edge aligned, below scales whose
\* border distances exceed the margins
C21_WitnessUnaligned ==
    /\ Activated
    /\ isValid(last.canvas0)
    /\ \A a \in Axes : ~alignCanvasToScale(a)
    /\ \E a \in Axes : /\ isValid(scaleRect[a])
                       /\ layoutData.scale[a].start > canvasMarginGet(a)
    /\ canvasRect = last.canvas0

(***************************************************************************)
(* C22: after every activate the canvas rectangle and every non-empty      *)
(* scale rectangle are contained in the plot rectangle, also when the      *)
(* canvas is aligned to scales and the second pass of the alignment sets   *)
(* edges of scale rectangles from canvas edges and border distances.       *)
(***************************************************************************)
C22_InsidePlotRect ==
    Activated =>
        /\ Contains(ActPlotRect, canvasRect)
        /\ \A a \in Axes :
              ~isEmpty(scaleRect[a]) => Contains(ActPlotRect, scaleRect[a])

\* what the code does keep: without a legend, when the plot rectangle has
\* room for the axes (the canvas computed before the alignment is valid), the
\* canvas and the non-empty scale rectangles lie in the plot rectangle, also
\* after the second pass of the alignment
C22_InsideWhenRoom ==
    (Activated /\ ~last.withLegend /\ isValid(last.canvas0)) =>
        /\ Contains(ActPlotRect, canvasRect)
        /\ \A a \in Axes :
              ~isEmpty(scaleRect[a]) => Contains(ActPlotRect, scaleRect[a])

\* the plot rectangle is narrower than the left scale
C22_ScaleWiderThanPlot ==
    /\ Activated
    /\ ~isEmpty(scaleRect[yLeft])
    /\ scaleRect[yLeft].w > ActPlotRect.w
    /\ ~Contains(ActPlotRect, canvasRect)

(***************************************************************************)
(* C23: the legend ratio does not survive a change of position:            *)
(* setLegendPosition( pos ) with one of the four positions sets the ratio  *)
(* to the default of pos (0.33 for Top and Bottom, 0.5 for Left and Right) *)
(* whatever ratio was set before; setLegendPosition with any other value   *)
(* leaves position and ratio unchanged; a newly constructed layout has the *)
(* position Bottom and the ratio 0.33.                                     *)
(***************************************************************************)
C23_LegendPositionStep ==
    last'.op = "setLegendPosition" =>
        IF last'.args[1] \in LegendPositions
        THEN Len(last'.args) = 1 =>
                /\ legendPos' = last'.args[1]
                /\ legendRatio' = DefaultRatio(last'.args[1])
        ELSE legendPos' = legendPos /\ legendRatio' = legendRatio

C23_LegendPositionResetsRatio ==
    /\ legendPos = "BottomLegend" /\ legendRatio = Ratio(33, 100)
    /\ [][C23_LegendPositionStep]_vars

\* the position was set to Left without a ratio and the ratio reads 0.5
C23_Witness ==
    /\ last.op = "setLegendPosition" /\ Len(last.args) = 1
    /\ last.args[1] = "LeftLegend"
    /\ legendPos = "LeftLegend"
    /\ legendRatio = Ratio(1, 2)

====
